---- MODULE Spec2Model ----
(***************************************************************************)
(* Model of the sysx binary/hex text codecs (src/src/math/hex.rs and       *)
(* src/src/math/bin.rs, the modules lib.rs exports as math::hex and        *)
(* math::bin).                                                             *)
(*                                                                         *)
(* A Rust &str / String is modelled as the sequence of its chars, each a   *)
(* Unicode code point (a natural number).  A Vec<u8> is a sequence of      *)
(* numbers in 0..255.  text.as_bytes() and String::from_utf8 are the UTF-8 *)
(* encoder and the UTF-8 validator/decoder.                                *)
(*                                                                         *)
(* The codec functions are pure; the state machine holds the string the    *)
(* caller supplied (src), the operations applied so far (chain) and the    *)
(* value the last operation returned (cur).  An operation can be applied   *)
(* to src or to the String an earlier operation returned.                  *)
(*                                                                         *)
(* The module also models SleepTime::from_str (src/src/time/time.rs),      *)
(* under SpecSleep, with the same three variables, and the environment     *)
(* cache of src/src/io/env.rs, under SpecEnv: os_env is the environment    *)
(* of the process, ENV_VARS the lazily initialised global cache, env_ret   *)
(* the last call and what it returned, and last_set records, for the       *)
(* properties, the value of the latest set_env of every key; thr holds     *)
(* the position of every thread when set_env, get_env and get_envs run     *)
(* concurrently (SpecEnvThreads).  The file                                *)
(* operations of src/src/io/fs.rs run under SpecFs: fs is the file         *)
(* system, bfile the path of the BFile, fs_ret the last call and what it   *)
(* returned, fs_hist what the properties remember of the earlier calls.    *)
(***************************************************************************)
EXTENDS Naturals, Integers, Sequences, FiniteSets, TLC

VARIABLES src, chain, cur, os_env, ENV_VARS, env_ret, last_set, thr,
          fs, bfile, fs_ret, fs_hist

\* the variables of the pure string functions
strVars == <<src, chain, cur>>

\* the variables of the environment cache
envVars == <<os_env, ENV_VARS, env_ret, last_set>>

\* the variables of the BFile operations
fsVars == <<fs, bfile, fs_ret, fs_hist>>

\* the variables the string functions never touch
sysVars == <<envVars, thr, fsVars>>

vars == <<src, chain, cur, os_env, ENV_VARS, env_ret, last_set, thr,
          fs, bfile, fs_ret, fs_hist>>

(***************************************************************************)
(* Bounds of the model.                                                    *)
(***************************************************************************)
\* an input string is the concatenation of at most MaxPieces pieces
MaxPieces == 3
\* at most MaxChain operations are applied one after the other
MaxChain == 2
\* a String longer than MaxLen chars is not passed on to a further operation
MaxLen == 26

(***************************************************************************)
(* Input strings, built from the pieces "0", " ", U+00A0 (no-break space,  *)
(* White_Space but not ASCII), "H", U+00E9 (e with acute accent, UTF-8     *)
(* bytes C3 A9), "F", "c3A9", "01001000", "10000000" and "11111111".       *)
(* Code points: 48 '0', 49 '1', 32 ' ', 72 'H', 70 'F', 99 'c', 51 '3',    *)
(* 65 'A', 57 '9'.                                                         *)
(***************************************************************************)
Pieces ==
    { <<48>>, <<32>>, <<160>>, <<72>>, <<233>>, <<70>>,
      <<99, 51, 65, 57>>,
      <<48, 49, 48, 48, 49, 48, 48, 48>>,
      <<49, 48, 48, 48, 48, 48, 48, 48>>,
      <<49, 49, 49, 49, 49, 49, 49, 49>> }

RECURSIVE Concats(_)
Concats(n) ==
    IF n = 0 THEN { <<>> }
    ELSE LET prev == Concats(n - 1)
         IN  prev \cup { s \o p : s \in prev, p \in Pieces }

Inputs == Concats(MaxPieces)

(***************************************************************************)
(* Results.  kind is "Ok" (val is the returned String), "Bool" (flag is    *)
(* the returned bool), the SysxError variant of an Err, or "Panic".        *)
(***************************************************************************)
Ok(v) == [kind |-> "Ok", val |-> v, flag |-> FALSE]
Err(k) == [kind |-> k, val |-> <<>>, flag |-> FALSE]
Bool(b) == [kind |-> "Bool", val |-> <<>>, flag |-> b]
Panic == [kind |-> "Panic", val |-> <<>>, flag |-> FALSE]

(***************************************************************************)
(* char predicates of the Rust standard library used by the codecs.        *)
(***************************************************************************)
\* char::is_ascii_hexdigit: '0'..='9' | 'A'..='F' | 'a'..='f'
is_ascii_hexdigit(c) == c \in (48..57) \cup (65..70) \cup (97..102)

\* char::is_whitespace: the code points with the Unicode White_Space property
is_whitespace(c) ==
    c \in (9..13) \cup {32, 133, 160, 5760} \cup (8192..8202)
          \cup {8232, 8233, 8239, 8287, 12288}

\* the test `c == '0' || c == '1'` of math/bin.rs
is_bin_digit(c) == c = 48 \/ c = 49

\* char::to_digit(16): the digit's value, or -1 for None
to_digit(c) ==
    IF c \in 48..57 THEN c - 48
    ELSE IF c \in 65..70 THEN c - 55
    ELSE IF c \in 97..102 THEN c - 87
    ELSE -1

(***************************************************************************)
(* UTF-8.  as_bytes is the UTF-8 encoding a Rust string is stored in;      *)
(* from_utf8 is String::from_utf8: it accepts exactly the well-formed      *)
(* byte sequences (no overlong forms, no surrogates, nothing above         *)
(* U+10FFFF) and returns Err(FromUtf8Error) otherwise.                     *)
(***************************************************************************)
utf8_char(c) ==
    IF c < 128 THEN << c >>
    ELSE IF c < 2048 THEN << 192 + (c \div 64), 128 + (c % 64) >>
    ELSE IF c < 65536
         THEN << 224 + (c \div 4096), 128 + ((c \div 64) % 64), 128 + (c % 64) >>
    ELSE << 240 + (c \div 262144), 128 + ((c \div 4096) % 64),
            128 + ((c \div 64) % 64), 128 + (c % 64) >>

RECURSIVE as_bytes(_)
as_bytes(s) ==
    IF s = <<>> THEN <<>> ELSE utf8_char(Head(s)) \o as_bytes(Tail(s))

\* the range the second byte of a 3- or 4-byte sequence must lie in
utf8_second_ok(first, second) ==
    IF first = 224 THEN second \in 160..191
    ELSE IF first = 237 THEN second \in 128..159
    ELSE IF first = 240 THEN second \in 144..191
    ELSE IF first = 244 THEN second \in 128..143
    ELSE second \in 128..191

RECURSIVE utf8_validate(_, _, _)
utf8_validate(b, i, acc) ==
    IF i > Len(b) THEN [ok |-> TRUE, chars |-> acc]
    ELSE
      LET first == b[i]
          cont(k) == i + k <= Len(b) /\ b[i + k] \in 128..191
          low(k) == b[i + k] - 128
          fail == [ok |-> FALSE, chars |-> <<>>]
      IN  IF first < 128 THEN utf8_validate(b, i + 1, Append(acc, first))
          ELSE IF first \in 194..223 THEN
              IF cont(1)
              THEN utf8_validate(b, i + 2,
                       Append(acc, (first - 192) * 64 + low(1)))
              ELSE fail
          ELSE IF first \in 224..239 THEN
              IF cont(1) /\ utf8_second_ok(first, b[i + 1]) /\ cont(2)
              THEN utf8_validate(b, i + 3,
                       Append(acc, (first - 224) * 4096 + low(1) * 64 + low(2)))
              ELSE fail
          ELSE IF first \in 240..244 THEN
              IF cont(1) /\ utf8_second_ok(first, b[i + 1]) /\ cont(2) /\ cont(3)
              THEN utf8_validate(b, i + 4,
                       Append(acc, (first - 240) * 262144 + low(1) * 4096
                                   + low(2) * 64 + low(3)))
              ELSE fail
          ELSE fail

from_utf8(bytes) ==
    LET r == utf8_validate(bytes, 1, <<>>)
    IN  IF r.ok THEN Ok(r.chars) ELSE Err("FromUtf8Error")

(***************************************************************************)
(* Bit operations on u8, computed bit by bit.                              *)
(***************************************************************************)
\* 2^k for the bit positions of a u8 (and 2^8 for the wrap-around)
pow2(k) == << 1, 2, 4, 8, 16, 32, 64, 128, 256 >>[k + 1]

bit_of(n, k) == (n \div pow2(k)) % 2

RECURSIVE bit_or_from(_, _, _)
bit_or_from(a, b, k) ==
    IF k < 0 THEN 0
    ELSE (IF bit_of(a, k) = 1 \/ bit_of(b, k) = 1 THEN pow2(k) ELSE 0)
         + bit_or_from(a, b, k - 1)

\* a | b on u8
bit_or(a, b) == bit_or_from(a, b, 7)

\* a << k on u8 (bits shifted out are lost)
shl_u8(a, k) == (a * pow2(k)) % 256

RECURSIVE bit_and_from(_, _, _)
bit_and_from(a, b, k) ==
    IF k < 0 THEN 0
    ELSE (IF bit_of(a, k) = 1 /\ bit_of(b, k) = 1 THEN pow2(k) ELSE 0)
         + bit_and_from(a, b, k - 1)

\* a & b on u8
bit_and(a, b) == bit_and_from(a, b, 7)

\* a >> k on u8
shr_u8(a, k) == a \div pow2(k)

(***************************************************************************)
(* math::hex                                                               *)
(***************************************************************************)
\* b"0123456789ABCDEF"
HEX_CHARS_UPPER ==
    << 48, 49, 50, 51, 52, 53, 54, 55, 56, 57, 65, 66, 67, 68, 69, 70 >>

\* clean: only the hex characters of the input, in order
hex_clean(input) == SelectSeq(input, is_ascii_hexdigit)

\* hex_pairs taking only the upper-case letters A-F for digits
RECURSIVE hex_pairs_upper_only(_, _, _)
hex_pairs_upper_only(cleaned, i, bytes) ==
    IF i + 1 > Len(cleaned) THEN [err |-> FALSE, bytes |-> bytes]
    ELSE LET hi == IF cleaned[i] \in 97..102 THEN -1 ELSE to_digit(cleaned[i])
             lo == IF cleaned[i + 1] \in 97..102 THEN -1
                   ELSE to_digit(cleaned[i + 1])
         IN  IF hi < 0 \/ lo < 0 THEN [err |-> TRUE, bytes |-> <<>>]
             ELSE hex_pairs_upper_only(cleaned, i + 2,
                      Append(bytes, bit_or(shl_u8(hi, 4), lo)))

\* the `while let (Some(c1), Some(c2))` loop of decode, from char i on
RECURSIVE hex_pairs(_, _, _)
hex_pairs(cleaned, i, bytes) ==
    IF i + 1 > Len(cleaned) THEN [err |-> FALSE, bytes |-> bytes]
    ELSE LET hi == to_digit(cleaned[i])
             lo == to_digit(cleaned[i + 1])
         IN  IF hi < 0 \/ lo < 0 THEN [err |-> TRUE, bytes |-> <<>>]
             ELSE hex_pairs(cleaned, i + 2,
                            Append(bytes, bit_or(shl_u8(hi, 4), lo)))

\* hex_decode without the `len % 2 != 0` check
hex_decode_unaligned(hex) ==
    LET cleaned == SelectSeq(hex, is_ascii_hexdigit)
        is_valid == \A k \in DOMAIN hex :
                        is_ascii_hexdigit(hex[k]) \/ is_whitespace(hex[k])
    IN  IF ~is_valid THEN Err("InvalidSyntax")
        ELSE LET p == hex_pairs(cleaned, 1, <<>>)
             IN  IF p.err THEN Err("InvalidSyntax")
                 ELSE LET r == from_utf8(p.bytes)
                      IN  IF r.kind = "Ok" THEN r ELSE Err("InvalidSyntax")

\* decode: hex string to UTF-8 string
hex_decode(hex) ==
    LET cleaned == SelectSeq(hex, is_ascii_hexdigit)
        is_valid == \A k \in DOMAIN hex :
                        is_ascii_hexdigit(hex[k]) \/ is_whitespace(hex[k])
        len == Len(cleaned)
    IN  IF ~is_valid THEN Err("InvalidSyntax")
        ELSE IF len % 2 # 0 THEN Err("InvalidSyntax")
        ELSE LET p == hex_pairs(cleaned, 1, <<>>)
             IN  IF p.err THEN Err("InvalidSyntax")
                 ELSE LET r == from_utf8(p.bytes)
                      IN  IF r.kind = "Ok" THEN r ELSE Err("InvalidSyntax")

\* hex_encode_from with the two nibbles of a byte pushed in the wrong order
RECURSIVE hex_encode_from_swapped(_, _, _)
hex_encode_from_swapped(bytes, i, result) ==
    IF i > Len(bytes) THEN result
    ELSE LET byte == bytes[i]
             sep == IF i > 1 THEN << 32 >> ELSE <<>>
         IN  hex_encode_from_swapped(bytes, i + 1,
                 result \o sep
                        \o << HEX_CHARS_UPPER[bit_and(byte, 15) + 1],
                              HEX_CHARS_UPPER[shr_u8(byte, 4) + 1] >>)

\* encode: the loop over the bytes of the text, from byte i on
RECURSIVE hex_encode_from(_, _, _)
hex_encode_from(bytes, i, result) ==
    IF i > Len(bytes) THEN result
    ELSE LET byte == bytes[i]
             sep == IF i > 1 THEN << 32 >> ELSE <<>>
         IN  hex_encode_from(bytes, i + 1,
                 result \o sep
                        \o << HEX_CHARS_UPPER[shr_u8(byte, 4) + 1],
                              HEX_CHARS_UPPER[bit_and(byte, 15) + 1] >>)

hex_encode(text) == hex_encode_from(as_bytes(text), 1, <<>>)

\* hex_check taking only ' ' for whitespace
hex_check_ascii_space(hex) ==
    hex # <<>>
    /\ \A k \in DOMAIN hex : hex[k] = 32 \/ is_ascii_hexdigit(hex[k])

\* check: only hex characters and whitespace, and not empty
hex_check(hex) ==
    hex # <<>>
    /\ \A k \in DOMAIN hex : is_whitespace(hex[k]) \/ is_ascii_hexdigit(hex[k])

\* hex_strict_scan with whitespace treated as a bad character
RECURSIVE hex_strict_scan_no_ws(_, _, _)
hex_strict_scan_no_ws(hex, i, length) ==
    IF i > Len(hex) THEN [is_valid |-> TRUE, length |-> length]
    ELSE IF is_ascii_hexdigit(hex[i])
         THEN hex_strict_scan_no_ws(hex, i + 1, length + 1)
    ELSE [is_valid |-> FALSE, length |-> length]

\* the scan of check_strict, which stops at the first bad character
RECURSIVE hex_strict_scan(_, _, _)
hex_strict_scan(hex, i, length) ==
    IF i > Len(hex) THEN [is_valid |-> TRUE, length |-> length]
    ELSE IF is_ascii_hexdigit(hex[i]) THEN hex_strict_scan(hex, i + 1, length + 1)
    ELSE IF ~is_whitespace(hex[i]) THEN [is_valid |-> FALSE, length |-> length]
    ELSE hex_strict_scan(hex, i + 1, length)

hex_check_strict(hex) ==
    LET r == hex_strict_scan(hex, 1, 0)
    IN  r.is_valid /\ r.length > 0 /\ r.length % 2 = 0

\* fmt_groups with the loop running over 0..=n instead of 0..n
RECURSIVE fmt_groups_inclusive(_, _, _, _, _)
fmt_groups_inclusive(cleaned, i, n, d, result) ==
    IF i > n THEN Ok(result)
    ELSE IF (i + 1) * d > Len(cleaned) THEN Panic
    ELSE fmt_groups_inclusive(cleaned, i + 1, n, d,
             result \o (IF i > 0 THEN << 32 >> ELSE <<>>)
                    \o SubSeq(cleaned, i * d + 1, (i + 1) * d))

\* the grouping loop of format and fmt_bin: n groups of d chars, each char
\* taken with chars.next().unwrap(), which panics when the chars run out
RECURSIVE fmt_groups(_, _, _, _, _)
fmt_groups(cleaned, i, n, d, result) ==
    IF i >= n THEN Ok(result)
    ELSE IF (i + 1) * d > Len(cleaned) THEN Panic
    ELSE fmt_groups(cleaned, i + 1, n, d,
             result \o (IF i > 0 THEN << 32 >> ELSE <<>>)
                    \o SubSeq(cleaned, i * d + 1, (i + 1) * d))

\* format: the hex digits in space-separated pairs
hex_format(hex) ==
    LET cleaned == hex_clean(hex)
        len == Len(cleaned)
    IN  IF len = 0 THEN Err("InvalidSyntax")
        ELSE IF len % 2 # 0 THEN Err("InvalidSyntax")
        ELSE fmt_groups(cleaned, 0, len \div 2, 2, <<>>)

(***************************************************************************)
(* math::bin                                                               *)
(***************************************************************************)
\* clean_bin keeping every decimal digit
clean_bin_ascii_digits(input) ==
    LET is_ascii_digit(c) == c \in 48..57
    IN  SelectSeq(input, is_ascii_digit)

\* clean_bin: only the characters '0' and '1' of the input, in order
clean_bin(input) == SelectSeq(input, is_bin_digit)

\* the `for i in 0..8` loop of bin_to_str: reads up to 8 chars from pos on
RECURSIVE bin_bits(_, _, _, _)
bin_bits(cleaned, pos, i, byte) ==
    IF i >= 8 THEN [panic |-> FALSE, byte |-> byte, pos |-> pos]
    ELSE IF pos > Len(cleaned) THEN [panic |-> FALSE, byte |-> byte, pos |-> pos]
    ELSE LET c == cleaned[pos]
         IN  IF c = 49
             THEN bin_bits(cleaned, pos + 1, i + 1, bit_or(byte, shl_u8(1, 7 - i)))
             ELSE IF c = 48
             THEN bin_bits(cleaned, pos + 1, i + 1, bit_or(byte, shl_u8(0, 7 - i)))
             ELSE [panic |-> TRUE, byte |-> byte, pos |-> pos]

\* the `while let Some(_) = chars.next()` loop of bin_to_str: every turn
\* takes one char in the loop condition and then up to 8 in the body
RECURSIVE bin_bytes(_, _, _)
bin_bytes(cleaned, pos, bytes) ==
    IF pos > Len(cleaned) THEN [panic |-> FALSE, bytes |-> bytes]
    ELSE LET r == bin_bits(cleaned, pos + 1, 0, 0)
         IN  IF r.panic THEN [panic |-> TRUE, bytes |-> <<>>]
             ELSE bin_bytes(cleaned, r.pos, Append(bytes, r.byte))

\* bin_to_str: binary string to UTF-8 string
bin_to_str(bin) ==
    LET cleaned == SelectSeq(bin, is_bin_digit)
        is_valid == \A k \in DOMAIN bin :
                        is_bin_digit(bin[k]) \/ is_whitespace(bin[k])
        len == Len(cleaned)
    IN  IF ~is_valid THEN Err("InvalidSyntax")
        ELSE IF len % 8 # 0 THEN Err("InvalidSyntax")
        ELSE LET p == bin_bytes(cleaned, 1, <<>>)
             IN  IF p.panic THEN Panic
                 ELSE LET r == from_utf8(p.bytes)
                      IN  IF r.kind = "Ok" THEN r ELSE Err("InvalidSyntax")

\* bin_digits with the shifts taken in ascending order (no .rev())
RECURSIVE bin_digits_lsb_first(_, _)
bin_digits_lsb_first(byte, shift) ==
    IF shift < 0 THEN <<>>
    ELSE bin_digits_lsb_first(byte, shift - 1)
         \o << IF bit_and(shr_u8(byte, shift), 1) = 1 THEN 49 ELSE 48 >>

\* the `for shift in (0..8).rev()` loop of str_to_bin
RECURSIVE bin_digits(_, _)
bin_digits(byte, shift) ==
    IF shift < 0 THEN <<>>
    ELSE << IF bit_and(shr_u8(byte, shift), 1) = 1 THEN 49 ELSE 48 >>
         \o bin_digits(byte, shift - 1)

RECURSIVE str_to_bin_from(_, _, _)
str_to_bin_from(bytes, i, result) ==
    IF i > Len(bytes) THEN result
    ELSE str_to_bin_from(bytes, i + 1,
             result \o (IF i > 1 THEN << 32 >> ELSE <<>>)
                    \o bin_digits(bytes[i], 7))

\* str_to_bin: string to space-separated binary string
str_to_bin(text) == str_to_bin_from(as_bytes(text), 1, <<>>)

\* is_valid_bin without the whitespace alternative
is_valid_bin_digits_only(bin) ==
    bin # <<>> /\ \A k \in DOMAIN bin : is_bin_digit(bin[k])

\* is_valid_bin: only '0', '1' and whitespace, and not empty
is_valid_bin(bin) ==
    bin # <<>>
    /\ \A k \in DOMAIN bin : is_whitespace(bin[k]) \/ is_bin_digit(bin[k])

RECURSIVE bin_strict_scan(_, _, _)
bin_strict_scan(bin, i, count) ==
    IF i > Len(bin) THEN [is_valid |-> TRUE, count |-> count]
    ELSE IF is_bin_digit(bin[i]) THEN bin_strict_scan(bin, i + 1, count + 1)
    ELSE IF ~is_whitespace(bin[i]) THEN [is_valid |-> FALSE, count |-> count]
    ELSE bin_strict_scan(bin, i + 1, count)

\* is_valid_bin_strict without the `count > 0` condition
is_valid_bin_strict_allow_empty(bin) ==
    LET r == bin_strict_scan(bin, 1, 0)
    IN  r.is_valid /\ r.count % 8 = 0

is_valid_bin_strict(bin) ==
    LET r == bin_strict_scan(bin, 1, 0)
    IN  r.is_valid /\ r.count > 0 /\ r.count % 8 = 0

\* fmt_bin without the `len == 0` check
fmt_bin_no_empty_check(bin) ==
    LET cleaned == clean_bin(bin)
        len == Len(cleaned)
    IN  IF len % 8 # 0 THEN Err("InvalidSyntax")
        ELSE fmt_groups(cleaned, 0, len \div 8, 8, <<>>)

\* fmt_bin: the binary digits in space-separated groups of 8
fmt_bin(bin) ==
    LET cleaned == clean_bin(bin)
        len == Len(cleaned)
    IN  IF len = 0 THEN Err("InvalidSyntax")
        ELSE IF len % 8 # 0 THEN Err("InvalidSyntax")
        ELSE fmt_groups(cleaned, 0, len \div 8, 8, <<>>)

(***************************************************************************)
(* io::env: the environment of the process and the global cache.  A map    *)
(* (the environment, a HashMap) is a function from the keys it holds to    *)
(* their values.                                                           *)
(***************************************************************************)
EmptyMap == [k \in {} |-> <<>>]

\* HashMap::insert
map_insert(m, key, value) ==
    [k \in DOMAIN m \cup {key} |-> IF k = key THEN value ELSE m[k]]

\* ENV_VARS before its first use (lazy_static! has not run the initialiser)
CacheUninit == [init |-> FALSE, map |-> EmptyMap]

\* no environment call has been made
NoCall == [op |-> "none", key |-> <<>>, res |-> Ok(<<>>), map |-> EmptyMap]

\* the state of the environment model while the string functions run
EnvUntouched ==
    /\ os_env = EmptyMap
    /\ ENV_VARS = CacheUninit
    /\ env_ret = NoCall
    /\ last_set = EmptyMap

\* no thread is calling set_env
NoThreads == [t \in {} |-> <<>>]

\* no BFile call has been made
NoFsCall == [op |-> "none", res |-> Ok(<<>>), flag |-> FALSE,
             fs |-> EmptyMap, path |-> <<>>, arg |-> <<>>]

\* the state of the file model while the other functions run
FsUntouched ==
    /\ fs = EmptyMap
    /\ bfile = <<>>
    /\ fs_ret = NoFsCall
    /\ fs_hist = [written |-> FALSE, data |-> <<>>, deleted |-> FALSE]

\* the state of the models with state while the string functions run
SysUntouched ==
    /\ EnvUntouched
    /\ thr = NoThreads
    /\ FsUntouched

(***************************************************************************)
(* The state machine: one action per codec function.  Each applies the     *)
(* function to the current string (the caller's input, or the String the   *)
(* previous operation returned) and records what it returned.              *)
(***************************************************************************)
Init ==
    /\ src \in Inputs
    /\ chain = <<>>
    /\ cur = Ok(src)
    /\ SysUntouched

\* The operations of one module are chained with each other (decode after
\* encode, check_strict after format, ...), never with the other radix.
HexOps ==
    { "hex_clean", "hex_decode", "hex_encode",
      "hex_check", "hex_check_strict", "hex_format" }

BinOps ==
    { "clean_bin", "bin_to_str", "str_to_bin",
      "is_valid_bin", "is_valid_bin_strict", "fmt_bin" }

CanApply(ops) ==
    /\ Len(chain) < MaxChain
    /\ cur.kind = "Ok"
    /\ Len(cur.val) <= MaxLen
    /\ \A k \in DOMAIN chain : chain[k] \in ops

HexClean ==
    /\ CanApply(HexOps)
    /\ cur' = Ok(hex_clean(cur.val))
    /\ chain' = Append(chain, "hex_clean")
    /\ UNCHANGED <<src, sysVars>>

HexDecode ==
    /\ CanApply(HexOps)
    /\ cur' = hex_decode(cur.val)
    /\ chain' = Append(chain, "hex_decode")
    /\ UNCHANGED <<src, sysVars>>

HexEncode ==
    /\ CanApply(HexOps)
    /\ cur' = Ok(hex_encode(cur.val))
    /\ chain' = Append(chain, "hex_encode")
    /\ UNCHANGED <<src, sysVars>>

HexCheck ==
    /\ CanApply(HexOps)
    /\ cur' = Bool(hex_check(cur.val))
    /\ chain' = Append(chain, "hex_check")
    /\ UNCHANGED <<src, sysVars>>

HexCheckStrict ==
    /\ CanApply(HexOps)
    /\ cur' = Bool(hex_check_strict(cur.val))
    /\ chain' = Append(chain, "hex_check_strict")
    /\ UNCHANGED <<src, sysVars>>

HexFormat ==
    /\ CanApply(HexOps)
    /\ cur' = hex_format(cur.val)
    /\ chain' = Append(chain, "hex_format")
    /\ UNCHANGED <<src, sysVars>>

BinClean ==
    /\ CanApply(BinOps)
    /\ cur' = Ok(clean_bin(cur.val))
    /\ chain' = Append(chain, "clean_bin")
    /\ UNCHANGED <<src, sysVars>>

BinDecode ==
    /\ CanApply(BinOps)
    /\ cur' = bin_to_str(cur.val)
    /\ chain' = Append(chain, "bin_to_str")
    /\ UNCHANGED <<src, sysVars>>

BinEncode ==
    /\ CanApply(BinOps)
    /\ cur' = Ok(str_to_bin(cur.val))
    /\ chain' = Append(chain, "str_to_bin")
    /\ UNCHANGED <<src, sysVars>>

BinCheck ==
    /\ CanApply(BinOps)
    /\ cur' = Bool(is_valid_bin(cur.val))
    /\ chain' = Append(chain, "is_valid_bin")
    /\ UNCHANGED <<src, sysVars>>

BinCheckStrict ==
    /\ CanApply(BinOps)
    /\ cur' = Bool(is_valid_bin_strict(cur.val))
    /\ chain' = Append(chain, "is_valid_bin_strict")
    /\ UNCHANGED <<src, sysVars>>

BinFormat ==
    /\ CanApply(BinOps)
    /\ cur' = fmt_bin(cur.val)
    /\ chain' = Append(chain, "fmt_bin")
    /\ UNCHANGED <<src, sysVars>>

Next ==
    \/ HexClean \/ HexDecode \/ HexEncode
    \/ HexCheck \/ HexCheckStrict \/ HexFormat
    \/ BinClean \/ BinDecode \/ BinEncode
    \/ BinCheck \/ BinCheckStrict \/ BinFormat

Spec == Init /\ [][Next]_vars

(***************************************************************************)
(* io::env (src/src/io/env.rs).  Keys and values are strings.  The calls   *)
(* are made one after another by one thread.                               *)
(***************************************************************************)

\* the keys and values the calls are made with: "K", "L", the empty key and
\* "K=" (both refused by the OS); "a", "b", the empty value and a value
\* holding NUL (refused by the OS)
EnvKeys == {<<75>>, <<76>>, <<>>, <<75, 61>>}
EnvValues == {<<97>>, <<98>>, <<>>, <<0>>}

\* the environment the process is started with
InitialEnvs == {EmptyMap, map_insert(EmptyMap, <<76>>, <<98>>)}

\* std::env::set_var panics when the key is empty or holds '=' or NUL, or
\* when the value holds NUL
set_var_ok(key, value) ==
    /\ key # <<>>
    /\ \A i \in 1..Len(key) : key[i] \notin {0, 61}
    /\ \A i \in 1..Len(value) : value[i] # 0

\* ENV_VARS.lock(): the first use runs the initialiser, which collects
\* std::env::vars()
cache_lock(cache, os) ==
    IF cache.init THEN cache ELSE [init |-> TRUE, map |-> os]

\* set_env that writes the OS variable and leaves the cache alone
set_env_os_only(os, cache, key, value) ==
    IF ~set_var_ok(key, value)
    THEN [os |-> os, cache |-> cache, res |-> Panic]
    ELSE [os |-> map_insert(os, key, value),
          cache |-> cache_lock(cache, map_insert(os, key, value)),
          res |-> Ok(<<>>)]

\* set_env(key, value): the OS variable first, then the cache entry
set_env(os, cache, key, value) ==
    IF ~set_var_ok(key, value)
    THEN [os |-> os, cache |-> cache, res |-> Panic]
    ELSE LET os2 == map_insert(os, key, value)
             locked == cache_lock(cache, os2)
         IN [os |-> os2,
             cache |-> [init |-> TRUE,
                        map |-> map_insert(locked.map, key, value)],
             res |-> Ok(<<>>)]

\* get_env(key): std::env::var first, the cache when the OS has no such
\* variable, EnvVarNotFound when neither has it
get_env(os, cache, key) ==
    IF key \in DOMAIN os
    THEN [cache |-> cache, res |-> Ok(os[key])]
    ELSE LET locked == cache_lock(cache, os)
         IN [cache |-> locked,
             res |-> IF key \in DOMAIN locked.map
                     THEN Ok(locked.map[key])
                     ELSE Err("EnvVarNotFound")]

\* get_envs(): a clone of the cache
get_envs(os, cache) ==
    LET locked == cache_lock(cache, os)
    IN [cache |-> locked, map |-> locked.map]

\* what last_set holds for a key after a set_env that returned: the value,
\* and whether it replaced a different value of an earlier set_env
set_record(ls, key, value) ==
    [val |-> value,
     over |-> key \in DOMAIN ls /\ (ls[key].over \/ ls[key].val # value)]

EnvInit ==
    /\ src = <<>>
    /\ chain = <<>>
    /\ cur = Ok(<<>>)
    /\ os_env \in InitialEnvs
    /\ ENV_VARS = CacheUninit
    /\ env_ret = NoCall
    /\ last_set = EmptyMap
    /\ thr = NoThreads
    /\ FsUntouched

SetEnv ==
    \E key \in EnvKeys, value \in EnvValues :
        LET r == set_env(os_env, ENV_VARS, key, value)
        IN /\ os_env' = r.os
           /\ ENV_VARS' = r.cache
           /\ env_ret' = [op |-> "set_env", key |-> key, res |-> r.res,
                          map |-> EmptyMap]
           /\ last_set' = IF r.res.kind = "Ok"
                          THEN map_insert(last_set, key,
                                          set_record(last_set, key, value))
                          ELSE last_set
           /\ UNCHANGED <<strVars, thr, fsVars>>

GetEnv ==
    \E key \in EnvKeys :
        LET r == get_env(os_env, ENV_VARS, key)
        IN /\ ENV_VARS' = r.cache
           /\ env_ret' = [op |-> "get_env", key |-> key, res |-> r.res,
                          map |-> EmptyMap]
           /\ UNCHANGED <<os_env, last_set, strVars, thr, fsVars>>

GetEnvs ==
    LET r == get_envs(os_env, ENV_VARS)
    IN /\ ENV_VARS' = r.cache
       /\ env_ret' = [op |-> "get_envs", key |-> <<>>, res |-> Ok(<<>>),
                      map |-> r.map]
       /\ UNCHANGED <<os_env, last_set, strVars, thr, fsVars>>

EnvNext == SetEnv \/ GetEnv \/ GetEnvs

SpecEnv == EnvInit /\ [][EnvNext]_vars

(***************************************************************************)
(* time::time (src/src/time/time.rs): SleepTime::from_str.  A SleepTime    *)
(* is kept as the two factors of `num * multiplier`: num is the decimal    *)
(* number [neg, mant, scale] (mant / 10^scale, negated when neg) and       *)
(* multiplier the fraction [n, d] of the unit; f64 rounding is not         *)
(* modelled.                                                               *)
(***************************************************************************)

\* the pieces of the strings parsed: "-", "1", "0", ".", "s", "ms", "x",
\* " ", "H" and the superscript two (numeric, but no ASCII digit)
SleepPieces ==
    {<<45>>, <<49>>, <<48>>, <<46>>, <<115>>, <<109, 115>>, <<120>>,
     <<32>>, <<72>>, <<178>>}

RECURSIVE SleepConcats(_)
SleepConcats(n) ==
    IF n = 0 THEN {<<>>}
    ELSE SleepConcats(n - 1)
         \cup {s \o p : s \in SleepConcats(n - 1), p \in SleepPieces}

SleepInputs == SleepConcats(MaxPieces)

\* char::is_numeric (Unicode Nd, Nl, No) below U+0700: the ASCII digits, the
\* Latin-1 superscripts and fractions, the Arabic-Indic digits
is_numeric(c) ==
    c \in (48..57) \cup {178, 179, 185} \cup (188..190)
          \cup (1632..1641) \cup (1776..1785)

\* str::to_lowercase on the letters of the model: A-Z map to a-z, the other
\* characters of SleepPieces have no lowercase mapping
to_lowercase(s) ==
    [i \in 1..Len(s) |-> IF s[i] \in 65..90 THEN s[i] + 32 ELSE s[i]]

RECURSIVE trim_start(_)
trim_start(s) ==
    IF s # <<>> /\ is_whitespace(Head(s)) THEN trim_start(Tail(s)) ELSE s

RECURSIVE trim_end(_)
trim_end(s) ==
    IF s # <<>> /\ is_whitespace(s[Len(s)])
    THEN trim_end(SubSeq(s, 1, Len(s) - 1))
    ELSE s

\* str::trim
trim(s) == trim_end(trim_start(s))

\* s.find(|c| !c.is_numeric() && c != '.').unwrap_or_else(|| s.len()): the
\* number of characters before the first one that is neither
find_unit(s) ==
    LET hits == {i \in 1..Len(s) : ~is_numeric(s[i]) /\ s[i] # 46}
    IN IF hits = {} THEN Len(s)
       ELSE (CHOOSE i \in hits : \A j \in hits : i <= j) - 1

RECURSIVE digits_value(_)
digits_value(ds) ==
    IF ds = <<>> THEN 0
    ELSE 10 * digits_value(SubSeq(ds, 1, Len(ds) - 1)) + (ds[Len(ds)] - 48)

\* <f64 as FromStr>::from_str on strings without letters: an optional sign,
\* then ASCII digits with at most one '.', at least one digit (the exponent,
\* inf and nan forms all need a letter)
parse_f64(t) ==
    LET signed == t # <<>> /\ t[1] \in {43, 45}
        body == IF signed THEN Tail(t) ELSE t
        dots == {i \in 1..Len(body) : body[i] = 46}
        digs == SelectSeq(body, LAMBDA c : c \in 48..57)
        wellformed ==
            /\ \A i \in 1..Len(body) : body[i] \in (48..57) \cup {46}
            /\ Cardinality(dots) <= 1
            /\ digs # <<>>
    IN IF ~wellformed THEN [ok |-> FALSE, neg |-> FALSE, mant |-> 0, scale |-> 0]
       ELSE [ok |-> TRUE,
             neg |-> signed /\ t[1] = 45,
             mant |-> digits_value(digs),
             scale |-> IF dots = {} THEN 0
                       ELSE Len(body) - (CHOOSE i \in dots : TRUE)]

\* the match on the unit
unit_multiplier(unit) ==
    CASE unit = <<110, 115>> -> [ok |-> TRUE, n |-> 1, d |-> 1000000000]
      [] unit = <<109, 115>> -> [ok |-> TRUE, n |-> 1, d |-> 1000]
      [] unit = <<109>> -> [ok |-> TRUE, n |-> 60, d |-> 1]
      [] unit = <<104>> -> [ok |-> TRUE, n |-> 3600, d |-> 1]
      [] unit = <<115>> \/ unit = <<>> -> [ok |-> TRUE, n |-> 1, d |-> 1]
      [] OTHER -> [ok |-> FALSE, n |-> 0, d |-> 1]

InvalidFormat(s) == [kind |-> "InvalidFormat", val |-> s, flag |-> FALSE]

SleepOk(num, multiplier) ==
    [kind |-> "Ok", val |-> <<>>, flag |-> FALSE,
     num |-> [neg |-> num.neg, mant |-> num.mant, scale |-> num.scale],
     multiplier |-> [n |-> multiplier.n, d |-> multiplier.d]]

\* SleepTime::from_str
sleep_from_str(str) ==
    LET s == to_lowercase(trim(str))
        at == find_unit(s)
        num_part == SubSeq(s, 1, at)
        unit == SubSeq(s, at + 1, Len(s))
        num == parse_f64(num_part)
        multiplier == unit_multiplier(unit)
    IN IF ~num.ok THEN InvalidFormat(s)
       ELSE IF ~multiplier.ok THEN InvalidFormat(s)
       ELSE IF num.neg /\ num.mant > 0 THEN Err("NegativeTime")
       ELSE SleepOk(num, multiplier)

\* a SleepTime: seconds = num * multiplier, or NaN
SleepTime(nan, num, multiplier) ==
    [nan |-> nan,
     num |-> [neg |-> num.neg, mant |-> num.mant, scale |-> num.scale],
     multiplier |-> [n |-> multiplier.n, d |-> multiplier.d]]

\* `seconds < 0.0`: false for NaN and for negative zero
seconds_lt_zero(t) == ~t.nan /\ t.num.neg /\ t.num.mant > 0

\* `seconds >= 0.0`: false for NaN, true for negative zero
seconds_ge_zero(t) == ~t.nan /\ (~t.num.neg \/ t.num.mant = 0)

\* the SleepTime values safe_sleep is given directly or through From<f64>:
\* 0, -0.0, 1.5, -1, and NaN
DirectTimes ==
    {SleepTime(FALSE, [neg |-> FALSE, mant |-> 0, scale |-> 0], [n |-> 1, d |-> 1]),
     SleepTime(FALSE, [neg |-> TRUE, mant |-> 0, scale |-> 0], [n |-> 1, d |-> 1]),
     SleepTime(FALSE, [neg |-> FALSE, mant |-> 15, scale |-> 1], [n |-> 1, d |-> 1]),
     SleepTime(FALSE, [neg |-> TRUE, mant |-> 1, scale |-> 0], [n |-> 1, d |-> 1]),
     SleepTime(TRUE, [neg |-> FALSE, mant |-> 0, scale |-> 0], [n |-> 1, d |-> 1])}

\* the argument of safe_sleep: a &str or a SleepTime
StrArg(s) ==
    [str |-> TRUE, s |-> s,
     time |-> SleepTime(FALSE, [neg |-> FALSE, mant |-> 0, scale |-> 0],
                        [n |-> 1, d |-> 1])]
TimeArg(t) == [str |-> FALSE, s |-> <<>>, time |-> t]

\* what a call of safe_sleep did: how it ended, whether thread::sleep ran,
\* and the argument it was given
SleepResult(kind, slept, arg) ==
    [kind |-> kind, val |-> <<>>, flag |-> FALSE, slept |-> slept, arg |-> arg]

\* time.into(): From<&str> parses and panics on an error; a SleepTime is
\* taken as it is
into_sleep_time(arg) ==
    IF ~arg.str THEN [panic |-> FALSE, time |-> arg.time]
    ELSE LET r == sleep_from_str(arg.s)
         IN IF r.kind = "Ok"
            THEN [panic |-> FALSE, time |-> SleepTime(FALSE, r.num, r.multiplier)]
            ELSE [panic |-> TRUE, time |-> arg.time]

\* SleepTime::to_duration: the assert panics unless seconds >= 0.0
to_duration_panics(t) == ~seconds_ge_zero(t)

\* safe_sleep(time)
safe_sleep(arg) ==
    LET c == into_sleep_time(arg)
    IN IF c.panic THEN SleepResult("Panic", FALSE, arg)
       ELSE IF seconds_lt_zero(c.time)
       THEN SleepResult("NegativeTime", FALSE, arg)
       ELSE IF to_duration_panics(c.time)
       THEN SleepResult("Panic", FALSE, arg)
       ELSE SleepResult("Ok", TRUE, arg)

SleepInit ==
    /\ src \in SleepInputs
    /\ chain = <<>>
    /\ cur = Ok(src)
    /\ SysUntouched

SleepFromStr ==
    /\ chain = <<>>
    /\ cur' = sleep_from_str(src)
    /\ chain' = <<"from_str">>
    /\ UNCHANGED <<src, sysVars>>

\* safe_sleep(src)
SafeSleepStr ==
    /\ chain = <<>>
    /\ cur' = safe_sleep(StrArg(src))
    /\ chain' = <<"safe_sleep">>
    /\ UNCHANGED <<src, sysVars>>

\* safe_sleep(t) for a SleepTime t
SafeSleepTime ==
    /\ chain = <<>>
    /\ \E t \in DirectTimes : cur' = safe_sleep(TimeArg(t))
    /\ chain' = <<"safe_sleep">>
    /\ UNCHANGED <<src, sysVars>>

SleepNext == SleepFromStr \/ SafeSleepStr \/ SafeSleepTime

SpecSleep == SleepInit /\ [][SleepNext]_vars

(***************************************************************************)
(* Helpers of the properties.                                              *)
(***************************************************************************)
(* net::ipv4 (src/src/net/ipv4.rs): is_valid_ipv4 and str_to_ipv4.         *)
(***************************************************************************)

\* the longest dot-separated list of the addresses checked
MaxIpParts == 5

\* the strings between the dots: "", "0", "255", "256", "+1", "a"
OctetTokens ==
    {<<>>, <<48>>, <<50, 53, 53>>, <<50, 53, 54>>, <<43, 49>>, <<97>>}

\* the strings after the colon: "", "0", "65535", "65536", "+80", "-1", and
\* "0:0" (a second colon)
PortTokens ==
    {<<>>, <<48>>, <<54, 53, 53, 51, 53>>, <<54, 53, 53, 51, 54>>,
     <<43, 56, 48>>, <<45, 49>>, <<48, 58, 48>>}

\* the lists of n tokens joined by '.'
RECURSIVE DottedLists(_)
DottedLists(n) ==
    IF n = 1 THEN OctetTokens
    ELSE {l \o <<46>> \o o : l \in DottedLists(n - 1), o \in OctetTokens}

\* addresses with three to MaxIpParts parts, without and with ":port"
IpInputs ==
    LET ips == UNION {DottedLists(n) : n \in 3..MaxIpParts}
    IN ips \cup {ip \o <<58>> \o p : ip \in ips, p \in PortTokens}

\* str::split(sep).collect(): the pieces between the separators, an empty
\* string giving one empty piece
RECURSIVE split_from(_, _, _)
split_from(s, sep, piece) ==
    IF s = <<>> THEN <<piece>>
    ELSE IF Head(s) = sep THEN <<piece>> \o split_from(Tail(s), sep, <<>>)
    ELSE split_from(Tail(s), sep, Append(piece, Head(s)))

split(s, sep) == split_from(s, sep, <<>>)

\* the digit loop of <uN as FromStr>::from_str: InvalidDigit on a character
\* that is no ASCII digit, PosOverflow once the value exceeds max
RECURSIVE parse_digits(_, _, _)
parse_digits(ds, acc, max) ==
    IF ds = <<>> THEN [ok |-> TRUE, n |-> acc]
    ELSE IF Head(ds) \notin 48..57 THEN [ok |-> FALSE, n |-> 0]
    ELSE IF 10 * acc + (Head(ds) - 48) > max THEN [ok |-> FALSE, n |-> 0]
    ELSE parse_digits(Tail(ds), 10 * acc + (Head(ds) - 48), max)

\* str::parse::<u8>() and ::<u16>(): an optional '+', then at least one digit
parse_unsigned(t, max) ==
    LET digits == IF t # <<>> /\ t[1] = 43 THEN Tail(t) ELSE t
    IN IF digits = <<>> THEN [ok |-> FALSE, n |-> 0]
       ELSE parse_digits(digits, 0, max)

parse_u8(t) == parse_unsigned(t, 255)
parse_u16(t) == parse_unsigned(t, 65535)

\* is_valid_ipv4(s)
is_valid_ipv4(s) ==
    LET parts == split(s, 58)
    IN IF Len(parts) # 2 THEN FALSE
       ELSE IF ~parse_u16(parts[2]).ok THEN FALSE
       ELSE LET ip_parts == split(parts[1], 46)
            IN IF Len(ip_parts) # 4 THEN FALSE
               ELSE \A i \in 1..4 :
                        ip_parts[i] # <<>> /\ parse_u8(ip_parts[i]).ok

None == [kind |-> "None", val |-> <<>>, flag |-> FALSE, port |-> 0]

\* Some(SocketAddrV4::new(Ipv4Addr::new(o[0], o[1], o[2], o[3]), port))
SomeAddr(octets, port) ==
    [kind |-> "Some", val |-> octets, flag |-> FALSE, port |-> port]

\* str_to_ipv4(s)
str_to_ipv4(s) ==
    IF ~is_valid_ipv4(s) THEN None
    ELSE LET parts == split(s, 58)
             port == parse_u16(parts[2])
             ip_parts == split(parts[1], 46)
             octets == [i \in 1..Len(ip_parts) |-> parse_u8(ip_parts[i])]
         IN IF ~port.ok THEN None
            ELSE IF \E i \in 1..Len(octets) : ~octets[i].ok THEN None
            ELSE IF Len(octets) # 4 THEN None
            ELSE SomeAddr([i \in 1..4 |-> octets[i].n], port.n)

IpInit ==
    /\ src \in IpInputs
    /\ chain = <<>>
    /\ cur = Ok(src)
    /\ SysUntouched

IsValidIpv4 ==
    /\ chain = <<>>
    /\ cur' = Bool(is_valid_ipv4(src))
    /\ chain' = <<"is_valid_ipv4">>
    /\ UNCHANGED <<src, sysVars>>

StrToIpv4 ==
    /\ chain = <<>>
    /\ cur' = str_to_ipv4(src)
    /\ chain' = <<"str_to_ipv4">>
    /\ UNCHANGED <<src, sysVars>>

IpNext == IsValidIpv4 \/ StrToIpv4

SpecIp == IpInit /\ [][IpNext]_vars

(***************************************************************************)
(* utils::rand (src/src/utils/rand.rs): random(min, max) for T = i32 and   *)
(* T = f64.  A value is [ty, nan, inf, n]: NaN, an infinity (inf = -1 or   *)
(* 1) or the number n.  The numbers of the model are the integers of       *)
(* -MaxRand..MaxRand, for both types.                                      *)
(***************************************************************************)
MaxRand == 2

\* the f64 values of the model between two integers: n + frac / RandGrain
RandGrain == 4

\* the number n of type ty
Num(ty, n) ==
    [ty |-> ty, nan |-> FALSE, inf |-> 0, max |-> 0, n |-> n, frac |-> 0]

\* the f64 n + frac / RandGrain
Float(n, frac) ==
    [ty |-> "f64", nan |-> FALSE, inf |-> 0, max |-> 0, n |-> n,
     frac |-> frac]

\* the f64 values that are no small number: NaN, the infinities (inf is the
\* sign), and f64::MAX and f64::MIN (max is the sign)
Special(nan, inf, max) ==
    [ty |-> "f64", nan |-> nan, inf |-> inf, max |-> max, n |-> 0,
     frac |-> 0]

RandValues(ty) ==
    {Num(ty, n) : n \in -MaxRand..MaxRand}
    \cup (IF ty = "f64"
          THEN {Special(TRUE, 0, 0), Special(FALSE, 1, 0),
                Special(FALSE, -1, 0), Special(FALSE, 0, 1),
                Special(FALSE, 0, -1)}
          ELSE {})

\* the argument pairs of random
RandInputs ==
    {<<a, b>> : a \in RandValues("i32"), b \in RandValues("i32")}
    \cup {<<a, b>> : a \in RandValues("f64"), b \in RandValues("f64")}

\* a < b for values that are not NaN
value_lt(a, b) ==
    \/ a.inf < b.inf
    \/ a.inf = 0 /\ b.inf = 0 /\ a.max < b.max
    \/ /\ a.inf = 0
       /\ b.inf = 0
       /\ a.max = 0
       /\ b.max = 0
       /\ (a.n < b.n \/ (a.n = b.n /\ a.frac < b.frac))

\* PartialOrd::partial_cmp
partial_cmp(a, b) ==
    IF a.nan \/ b.nan THEN "None"
    ELSE IF value_lt(a, b) THEN "Less"
    ELSE IF value_lt(b, a) THEN "Greater"
    ELSE "Equal"

\* whether scale = (high - low) / (1 - EPSILON) is finite, for low <= high:
\* it is not when a bound is infinite, nor for f64::MAX or f64::MIN and
\* another bound, where the division overflows
scale_is_finite(low, high) ==
    /\ low.inf = 0
    /\ high.inf = 0
    /\ (low.max = 0 /\ high.max = 0) \/ low = high

\* Uniform::new_inclusive(low, high) in a build with or without
\* debug_assertions: with them, NonFinite first for a bound that is not
\* finite; then EmptyRange unless low <= high, and NonFinite when the scale
\* of a float range is not finite
new_inclusive(low, high, debug_assertions) ==
    IF debug_assertions /\ (low.nan \/ low.inf # 0 \/ high.nan \/ high.inf # 0)
    THEN "NonFinite"
    ELSE IF low.nan \/ high.nan \/ value_lt(high, low) THEN "EmptyRange"
    ELSE IF ~scale_is_finite(low, high) THEN "NonFinite"
    ELSE "Ok"

\* the values rng.sample(distr) can return: every integer of low..high for
\* an integer type, every f64 of the interval [low, high] for f64
samples(low, high) ==
    IF low = high THEN {low}
    ELSE IF low.ty = "f64"
    THEN {v \in {Float(n, frac) : n \in low.n..high.n, frac \in 0..(RandGrain - 1)} :
              ~value_lt(v, low) /\ ~value_lt(high, v)}
    ELSE {Num(low.ty, n) : n \in low.n..high.n}

RandOk(v) == [kind |-> "Ok", val |-> v, flag |-> FALSE]

\* the match on partial_cmp without the swap of an inverted pair
effective_range_no_swap(min, max) ==
    IF partial_cmp(min, max) = "None"
    THEN [ok |-> FALSE, min |-> min, max |-> max]
    ELSE [ok |-> TRUE, min |-> min, max |-> max]

\* the match on partial_cmp: (effective_min, effective_max)
effective_range(min, max) ==
    CASE partial_cmp(min, max) = "Greater"
             -> [ok |-> TRUE, min |-> max, max |-> min]
      [] partial_cmp(min, max) = "None"
             -> [ok |-> FALSE, min |-> min, max |-> max]
      [] OTHER -> [ok |-> TRUE, min |-> min, max |-> max]

\* random(min, max) in one build: the set of results the call can have
random_in_build(min, max, debug_assertions) ==
    LET e == effective_range(min, max)
    IN IF ~e.ok THEN {Err("InvalidSyntax")}
       ELSE IF new_inclusive(e.min, e.max, debug_assertions) # "Ok"
       THEN {Err("RandomError")}
       ELSE {RandOk(v) : v \in samples(e.min, e.max)}

\* random(min, max): the results of the debug and of the release build
random(min, max) ==
    random_in_build(min, max, TRUE) \cup random_in_build(min, max, FALSE)

RandInit ==
    /\ src \in RandInputs
    /\ chain = <<>>
    /\ cur = Ok(<<>>)
    /\ SysUntouched

Random ==
    /\ chain = <<>>
    /\ cur' \in random(src[1], src[2])
    /\ chain' = <<"random">>
    /\ UNCHANGED <<src, sysVars>>

RandNext == Random

SpecRand == RandInit /\ [][RandNext]_vars

(***************************************************************************)
(* io::fs (src/src/io/fs.rs): normalize_path on Unix paths.  A path is     *)
(* the string it is written as.                                            *)
(***************************************************************************)

\* the longest path normalised
MaxPathLen == 6

\* the characters of the paths: '/', '.', 'a', 'b'
PathChars == {47, 46, 97, 98}

PathInputs == UNION {[1..n -> PathChars] : n \in 0..MaxPathLen}

\* Path::components(): RootDir for a leading '/', then one component for
\* every non-empty piece between separators; "." is CurDir when it is the
\* first piece of a relative path and is skipped elsewhere, ".." is
\* ParentDir, anything else Normal
components(p) ==
    LET rooted == p # <<>> /\ p[1] = 47
        pieces == SelectSeq(split(p, 47), LAMBDA x : x # <<>>)
        kept == {i \in 1..Len(pieces) :
                    pieces[i] # <<46>> \/ (i = 1 /\ ~rooted)}
        comp(i) ==
            [kind |-> IF pieces[i] = <<46>> THEN "CurDir"
                      ELSE IF pieces[i] = <<46, 46>> THEN "ParentDir"
                      ELSE "Normal",
             name |-> pieces[i]]
        RECURSIVE from(_)
        from(i) ==
            IF i > Len(pieces) THEN <<>>
            ELSE IF i \in kept THEN <<comp(i)>> \o from(i + 1)
            ELSE from(i + 1)
    IN (IF rooted THEN <<[kind |-> "RootDir", name |-> <<47>>]>> ELSE <<>>)
       \o from(1)

\* PathBuf::push(name): an absolute name replaces the path, otherwise it is
\* added after a separator
path_push(p, name) ==
    IF name # <<>> /\ name[1] = 47 THEN name
    ELSE IF p = <<>> \/ p[Len(p)] = 47 THEN p \o name
    ELSE p \o <<47>> \o name

\* PathBuf::pop() on a path built by path_push: truncate to the parent; the
\* empty path and the root have no parent and stay
path_pop(p) ==
    LET seps == {i \in 1..Len(p) : p[i] = 47}
        last == IF seps = {} THEN 0
                ELSE CHOOSE i \in seps : \A j \in seps : j <= i
    IN IF p = <<>> \/ p = <<47>> THEN p
       ELSE IF last = 0 THEN <<>>
       ELSE IF last = 1 THEN <<47>>
       ELSE SubSeq(p, 1, last - 1)

\* the loop of normalize_path with `..` skipped like `.`
RECURSIVE normalize_keep_parent(_, _)
normalize_keep_parent(comps, normalized) ==
    IF comps = <<>> THEN normalized
    ELSE IF Head(comps).kind \in {"CurDir", "ParentDir"}
    THEN normalize_keep_parent(Tail(comps), normalized)
    ELSE normalize_keep_parent(Tail(comps),
                               path_push(normalized, Head(comps).name))

\* the loop of normalize_path over the components
RECURSIVE normalize_from(_, _)
normalize_from(comps, normalized) ==
    IF comps = <<>> THEN normalized
    ELSE IF Head(comps).kind = "CurDir"
    THEN normalize_from(Tail(comps), normalized)
    ELSE IF Head(comps).kind = "ParentDir"
    THEN normalize_from(Tail(comps), path_pop(normalized))
    ELSE normalize_from(Tail(comps), path_push(normalized, Head(comps).name))

\* normalize_path(path)
normalize_path(p) == normalize_from(components(p), <<>>)

PathInit ==
    /\ src \in PathInputs
    /\ chain = <<>>
    /\ cur = Ok(src)
    /\ SysUntouched

\* normalize_path on the caller's path or on the path it returned
NormalizePath ==
    /\ Len(chain) < MaxChain
    /\ cur' = Ok(normalize_path(cur.val))
    /\ chain' = Append(chain, "normalize_path")
    /\ UNCHANGED <<src, sysVars>>

PathNext == NormalizePath

SpecPath == PathInit /\ [][PathNext]_vars

(***************************************************************************)
(* io::fs (src/src/io/fs.rs): BFile.  The file system is a map from the    *)
(* paths that exist to [dir, data]: a directory, or a file and its         *)
(* content.  The root always exists and every path that exists has a       *)
(* directory as its parent.                                                *)
(***************************************************************************)

\* the longest file content; append is not called beyond it
MaxContent == 3

DirNode == [dir |-> TRUE, data |-> <<>>]
FileNode(data) == [dir |-> FALSE, data |-> data]

\* std::env::current_dir(): "/d"
cur_dir == <<47, 100>>

\* the file systems at the start: "/" and "/d", without and with the file
\* "/d/f" holding "y"
InitialFs ==
    LET dirs == map_insert(map_insert(EmptyMap, <<47>>, DirNode),
                           <<47, 100>>, DirNode)
    IN {dirs, map_insert(dirs, <<47, 100, 47, 102>>, FileNode(<<121>>))}

\* the paths a BFile is made for: "/d/f", "g", "/n/f", "/d", "/d/f/x"
NewPaths ==
    {<<47, 100, 47, 102>>, <<103>>, <<47, 110, 47, 102>>, <<47, 100>>,
     <<47, 100, 47, 102, 47, 120>>}

\* the destinations of rename: "g", "/n/g", "../h", "f", "/d"
RenamePaths ==
    {<<103>>, <<47, 110, 47, 103>>, <<46, 46, 47, 104>>, <<102>>,
     <<47, 100>>}

\* the data written and appended: "x", "y", ""
FsData == {<<120>>, <<121>>, <<>>}

IoError == Err("IoError")

\* Path::is_relative
is_relative(p) == p = <<>> \/ p[1] # 47

\* Path::parent of a normalised path: none for "/" and ""
has_parent(p) == p # <<>> /\ p # <<47>>
path_parent(p) == path_pop(p)

\* BFile::new(path).path
bfile_new(p) ==
    normalize_path(IF is_relative(p) THEN path_push(cur_dir, p) ELSE p)

\* p is q or lies below q
is_under(p, q) ==
    \/ p = q
    \/ /\ Len(p) > Len(q)
       /\ SubSeq(p, 1, Len(q)) = q
       /\ (q = <<47>> \/ p[Len(q) + 1] = 47)

map_remove(m, keys) == [k \in DOMAIN m \ keys |-> m[k]]

\* fs::create_dir_all(p): creates the missing directories down to p; fails
\* when p or one of its ancestors is a file
RECURSIVE create_dir_all(_, _)
create_dir_all(f, p) ==
    IF p \in DOMAIN f THEN [ok |-> f[p].dir, fs |-> f]
    ELSE IF ~has_parent(p) THEN [ok |-> TRUE, fs |-> f]
    ELSE LET r == create_dir_all(f, path_parent(p))
         IN IF ~r.ok THEN [ok |-> FALSE, fs |-> f]
            ELSE [ok |-> TRUE, fs |-> map_insert(r.fs, p, DirNode)]

\* a file can be created or opened at p: p is no directory and its
\* parent is one
can_open(f, p) ==
    /\ has_parent(p)
    /\ path_parent(p) \in DOMAIN f
    /\ f[path_parent(p)].dir
    /\ p \in DOMAIN f => ~f[p].dir

\* fs::rename(from, to)
fs_rename(f, from, to) ==
    IF from \notin DOMAIN f THEN [ok |-> FALSE, fs |-> f]
    ELSE IF ~has_parent(to) \/ path_parent(to) \notin DOMAIN f
            \/ ~f[path_parent(to)].dir
    THEN [ok |-> FALSE, fs |-> f]
    ELSE IF from = to THEN [ok |-> TRUE, fs |-> f]
    ELSE IF to \in DOMAIN f /\ f[to].dir # f[from].dir
    THEN [ok |-> FALSE, fs |-> f]
    ELSE IF f[from].dir /\ (is_under(to, from)
                            \/ \E q \in DOMAIN f : q # to /\ is_under(q, to))
    THEN [ok |-> FALSE, fs |-> f]
    ELSE LET moved == {q \in DOMAIN f : is_under(q, from)}
             rest == map_remove(f, moved \cup {to})
             target(q) == to \o SubSeq(q, Len(from) + 1, Len(q))
         IN [ok |-> TRUE,
             fs |-> [q \in DOMAIN rest \cup {target(m) : m \in moved} |->
                        IF q \in DOMAIN rest THEN rest[q]
                        ELSE f[CHOOSE m \in moved : target(m) = q]]]

\* BFile::exists
bfile_exists(f, path) == path \in DOMAIN f

\* BFile::read
bfile_read(f, path) ==
    IF path \in DOMAIN f /\ ~f[path].dir THEN Ok(f[path].data) ELSE IoError

\* BFile::append with the file opened for truncation
bfile_append_truncating(f, path, data) ==
    IF ~can_open(f, path) THEN [fs |-> f, res |-> IoError]
    ELSE [fs |-> map_insert(f, path, FileNode(data)), res |-> Ok(<<>>)]

\* BFile::append(data)
bfile_append(f, path, data) ==
    IF ~can_open(f, path) THEN [fs |-> f, res |-> IoError]
    ELSE [fs |-> map_insert(f, path,
                     FileNode((IF path \in DOMAIN f THEN f[path].data
                               ELSE <<>>) \o data)),
          res |-> Ok(<<>>)]

\* BFile::write(data)
bfile_write(f, path, data) ==
    LET made == IF has_parent(path) THEN create_dir_all(f, path_parent(path))
                ELSE [ok |-> TRUE, fs |-> f]
    IN IF ~made.ok THEN [fs |-> f, res |-> IoError]
       ELSE IF ~can_open(made.fs, path) THEN [fs |-> made.fs, res |-> IoError]
       ELSE [fs |-> map_insert(made.fs, path, FileNode(data)),
             res |-> Ok(<<>>)]

\* BFile::delete()
bfile_delete(f, path) ==
    IF ~bfile_exists(f, path) THEN [fs |-> f, res |-> Ok(<<>>)]
    ELSE IF f[path].dir THEN [fs |-> f, res |-> IoError]
    ELSE [fs |-> map_remove(f, {path}), res |-> Ok(<<>>)]

\* BFile::rename with self.path assigned before fs::rename is tried
bfile_rename_path_first(f, path, new_path) ==
    LET raw == IF is_relative(new_path)
               THEN path_push(IF has_parent(path) THEN path_parent(path)
                              ELSE cur_dir, new_path)
               ELSE new_path
        full == normalize_path(raw)
        made == IF has_parent(full) THEN create_dir_all(f, path_parent(full))
                ELSE [ok |-> TRUE, fs |-> f]
        moved == fs_rename(made.fs, path, full)
    IN IF ~made.ok THEN [fs |-> f, path |-> full, res |-> IoError]
       ELSE IF ~moved.ok THEN [fs |-> made.fs, path |-> full, res |-> IoError]
       ELSE [fs |-> moved.fs, path |-> full, res |-> Ok(<<>>)]

\* BFile::rename(new_path)
bfile_rename(f, path, new_path) ==
    LET raw == IF is_relative(new_path)
               THEN path_push(IF has_parent(path) THEN path_parent(path)
                              ELSE cur_dir, new_path)
               ELSE new_path
        full == normalize_path(raw)
        made == IF has_parent(full) THEN create_dir_all(f, path_parent(full))
                ELSE [ok |-> TRUE, fs |-> f]
        moved == fs_rename(made.fs, path, full)
    IN IF ~made.ok THEN [fs |-> f, path |-> path, res |-> IoError]
       ELSE IF ~moved.ok THEN [fs |-> made.fs, path |-> path, res |-> IoError]
       ELSE [fs |-> moved.fs, path |-> full, res |-> Ok(<<>>)]

\* the call made, what it returned, and the file system, the path and the
\* argument it was made with
FsCall(op, res, flag, arg) ==
    [op |-> op, res |-> res, flag |-> flag, fs |-> fs, path |-> bfile,
     arg |-> arg]

FsInit ==
    /\ src = <<>>
    /\ chain = <<>>
    /\ cur = Ok(<<>>)
    /\ EnvUntouched
    /\ thr = NoThreads
    /\ fs \in InitialFs
    /\ \E p \in NewPaths : bfile = bfile_new(p)
    /\ fs_ret = NoFsCall
    /\ fs_hist = [written |-> FALSE, data |-> <<>>, deleted |-> FALSE]

FsWrite ==
    \E data \in FsData :
        LET r == bfile_write(fs, bfile, data)
        IN /\ fs' = r.fs
           /\ fs_ret' = FsCall("write", r.res, FALSE, data)
           /\ fs_hist' = IF r.res.kind = "Ok"
                         THEN [written |-> TRUE, data |-> data,
                               deleted |-> FALSE]
                         ELSE fs_hist
           /\ UNCHANGED <<bfile, strVars, envVars, thr>>

FsAppend ==
    \E data \in FsData :
        LET r == bfile_append(fs, bfile, data)
        IN /\ bfile \in DOMAIN fs /\ ~fs[bfile].dir
               => Len(fs[bfile].data) + Len(data) <= MaxContent
           /\ fs' = r.fs
           /\ fs_ret' = FsCall("append", r.res, FALSE, data)
           /\ fs_hist' = IF r.res.kind = "Ok"
                         THEN [written |-> fs_hist.written,
                               data |-> IF fs_hist.written
                                        THEN fs_hist.data \o data
                                        ELSE <<>>,
                               deleted |-> FALSE]
                         ELSE fs_hist
           /\ UNCHANGED <<bfile, strVars, envVars, thr>>

FsRead ==
    /\ fs_ret' = FsCall("read", bfile_read(fs, bfile), FALSE, <<>>)
    /\ UNCHANGED <<fs, bfile, fs_hist, strVars, envVars, thr>>

FsExists ==
    /\ fs_ret' = FsCall("exists", Ok(<<>>), bfile_exists(fs, bfile), <<>>)
    /\ UNCHANGED <<fs, bfile, fs_hist, strVars, envVars, thr>>

FsDelete ==
    LET r == bfile_delete(fs, bfile)
    IN /\ fs' = r.fs
       /\ fs_ret' = FsCall("delete", r.res, FALSE, <<>>)
       /\ fs_hist' = IF r.res.kind = "Ok"
                     THEN [written |-> FALSE, data |-> <<>>, deleted |-> TRUE]
                     ELSE fs_hist
       /\ UNCHANGED <<bfile, strVars, envVars, thr>>

FsRename ==
    \E new_path \in RenamePaths :
        LET r == bfile_rename(fs, bfile, new_path)
        IN /\ fs' = r.fs
           /\ bfile' = r.path
           /\ fs_ret' = FsCall("rename", r.res, FALSE, new_path)
           /\ UNCHANGED <<fs_hist, strVars, envVars, thr>>

FsNext ==
    \/ FsWrite \/ FsAppend \/ FsRead
    \/ FsExists \/ FsDelete \/ FsRename

SpecFs == FsInit /\ [][FsNext]_vars

(***************************************************************************)
(* io::env under concurrency: several threads call set_env on the key "K", *)
(* each with its own value, while the main thread calls get_env and        *)
(* get_envs.  No function holds a lock across its steps: std::env::set_var *)
(* and std::env::var are steps of their own (std serialises them with its  *)
(* own lock), the dereference of ENV_VARS (which runs the initialiser the  *)
(* first time) is a step, and the operation under the ENV_VARS mutex is    *)
(* another.                                                                *)
(***************************************************************************)
MaxThreads == 3

Threads == 1..MaxThreads

\* the thread that reads the environment while the others call set_env
Main == 0

\* the key the threads write, "K", and the value of thread t: "a", "b", ...
SharedKey == <<75>>
ValueOf(t) == <<96 + t>>

\* the first step of set_env: std::env::set_var(key, value)
set_env_os_step(os, key, value) == map_insert(os, key, value)

\* the last step of set_env: the mutex is taken and insert(key, value) runs
\* on the initialised cache
set_env_cache_step(cache, key, value) ==
    [init |-> TRUE, map |-> map_insert(cache.map, key, value)]

\* the first step of get_env: std::env::var(key)
get_env_var_step(os, key) ==
    IF key \in DOMAIN os THEN Ok(os[key]) ELSE Err("NotPresent")

\* the last step of get_env: the mutex is taken and get(key) runs on the
\* initialised cache
get_env_cache_step(cache, key) ==
    IF key \in DOMAIN cache.map THEN Ok(cache.map[key])
    ELSE Err("EnvVarNotFound")

ThreadsInit ==
    /\ src = <<>>
    /\ chain = <<>>
    /\ cur = Ok(<<>>)
    /\ os_env \in InitialEnvs
    /\ ENV_VARS = CacheUninit
    /\ env_ret = NoCall
    /\ last_set = EmptyMap
    /\ thr = [t \in Threads \cup {Main} |-> IF t = Main THEN "idle" ELSE "start"]
    /\ FsUntouched

\* thread t runs std::env::set_var
ThreadSetVar(t) ==
    /\ thr[t] = "start"
    /\ os_env' = set_env_os_step(os_env, SharedKey, ValueOf(t))
    /\ thr' = [thr EXCEPT ![t] = "set"]
    /\ UNCHANGED <<ENV_VARS, env_ret, last_set, strVars, fsVars>>

\* thread t dereferences ENV_VARS: the first dereference runs the
\* initialiser, which collects std::env::vars()
ThreadCacheDeref(t) ==
    /\ thr[t] = "set"
    /\ ENV_VARS' = cache_lock(ENV_VARS, os_env)
    /\ thr' = [thr EXCEPT ![t] = "deref"]
    /\ UNCHANGED <<os_env, env_ret, last_set, strVars, fsVars>>

\* thread t takes the mutex, inserts into the cache and returns
ThreadCacheInsert(t) ==
    /\ thr[t] = "deref"
    /\ ENV_VARS' = set_env_cache_step(ENV_VARS, SharedKey, ValueOf(t))
    /\ thr' = [thr EXCEPT ![t] = "returned"]
    /\ UNCHANGED <<os_env, env_ret, last_set, strVars, fsVars>>

ThreadStep ==
    \E t \in Threads :
        ThreadSetVar(t) \/ ThreadCacheDeref(t) \/ ThreadCacheInsert(t)

\* the main thread calls get_env(key): std::env::var(key) returns; the call
\* returns its value, or goes on to the cache when there is none
MainGetEnvVar ==
    /\ thr[Main] = "idle"
    /\ \E key \in EnvKeys :
           /\ env_ret' = [op |-> "get_env", key |-> key,
                          res |-> get_env_var_step(os_env, key),
                          map |-> EmptyMap]
           /\ thr' = [thr EXCEPT ![Main] =
                         IF key \in DOMAIN os_env THEN "idle" ELSE "var_missed"]
    /\ UNCHANGED <<os_env, ENV_VARS, last_set, strVars, fsVars>>

\* get_env dereferences ENV_VARS
MainGetEnvDeref ==
    /\ thr[Main] = "var_missed"
    /\ ENV_VARS' = cache_lock(ENV_VARS, os_env)
    /\ thr' = [thr EXCEPT ![Main] = "get_env_deref"]
    /\ UNCHANGED <<os_env, env_ret, last_set, strVars, fsVars>>

\* get_env takes the mutex, looks the key up and returns
MainGetEnvLookup ==
    /\ thr[Main] = "get_env_deref"
    /\ env_ret' = [env_ret EXCEPT
                      !.res = get_env_cache_step(ENV_VARS, env_ret.key)]
    /\ thr' = [thr EXCEPT ![Main] = "idle"]
    /\ UNCHANGED <<os_env, ENV_VARS, last_set, strVars, fsVars>>

\* the main thread calls get_envs(), which dereferences ENV_VARS
MainGetEnvsDeref ==
    /\ thr[Main] = "idle"
    /\ ENV_VARS' = cache_lock(ENV_VARS, os_env)
    /\ thr' = [thr EXCEPT ![Main] = "get_envs_deref"]
    /\ UNCHANGED <<os_env, env_ret, last_set, strVars, fsVars>>

\* get_envs takes the mutex and returns a clone of the cache
MainGetEnvsClone ==
    /\ thr[Main] = "get_envs_deref"
    /\ env_ret' = [op |-> "get_envs", key |-> <<>>, res |-> Ok(<<>>),
                   map |-> ENV_VARS.map]
    /\ thr' = [thr EXCEPT ![Main] = "idle"]
    /\ UNCHANGED <<os_env, ENV_VARS, last_set, strVars, fsVars>>

MainStep ==
    \/ MainGetEnvVar
    \/ MainGetEnvDeref
    \/ MainGetEnvLookup
    \/ MainGetEnvsDeref
    \/ MainGetEnvsClone

ThreadsNext == ThreadStep \/ MainStep

SpecEnvThreads == ThreadsInit /\ [][ThreadsNext]_vars

(***************************************************************************)
(* math::hex case conversion (src/src/math/hex.rs): to_uppercase_fast,     *)
(* to_lowercase_fast and the table-based convert_hex_case.  The strings    *)
(* converted are ASCII, so every output byte is one character.             *)
(***************************************************************************)
MaxCaseLen == 3

\* the characters of the strings converted: '0', '9', 'a', 'f', 'A', 'F'
\* and 'g' (no hex digit)
CaseChars == {48, 57, 97, 102, 65, 70, 103}

CaseInputs == UNION {[1..n -> CaseChars] : n \in 0..MaxCaseLen}

TO_UPPER_MASK == 223
TO_LOWER_MASK == 32

\* to_uppercase_fast(hex)
to_uppercase_fast(hex) ==
    LET bytes == as_bytes(hex)
    IN [i \in 1..Len(bytes) |->
           IF bytes[i] >= 97 /\ bytes[i] <= 102
           THEN bit_and(bytes[i], TO_UPPER_MASK)
           ELSE bytes[i]]

\* to_lowercase_fast(hex)
to_lowercase_fast(hex) ==
    LET bytes == as_bytes(hex)
    IN [i \in 1..Len(bytes) |->
           IF bytes[i] >= 65 /\ bytes[i] <= 70
           THEN bit_or(bytes[i], TO_LOWER_MASK)
           ELSE bytes[i]]

\* HEX_CASE_TABLE[byte]: a-f and A-F swap case, every other byte is itself
HEX_CASE_TABLE(byte) ==
    CASE byte \in 48..57 -> byte
      [] byte \in 97..102 -> byte - 32
      [] byte \in 65..70 -> byte + 32
      [] OTHER -> byte

\* convert_hex_case(hex, to_upper)
convert_hex_case(hex, to_upper) ==
    LET bytes == as_bytes(hex)
    IN [i \in 1..Len(bytes) |->
           IF to_upper
           THEN bit_and(HEX_CASE_TABLE(bytes[i]), TO_UPPER_MASK)
           ELSE bit_or(HEX_CASE_TABLE(bytes[i]), TO_LOWER_MASK)]

\* the String a conversion returned, and the to_upper it was asked for
Converted(s, to_upper) == [kind |-> "Ok", val |-> s, flag |-> to_upper]

CaseInit ==
    /\ src \in CaseInputs
    /\ chain = <<>>
    /\ cur = Ok(src)
    /\ SysUntouched

ToUppercaseFast ==
    /\ chain = <<>>
    /\ cur' = Converted(to_uppercase_fast(src), TRUE)
    /\ chain' = <<"to_uppercase_fast">>
    /\ UNCHANGED <<src, sysVars>>

ToLowercaseFast ==
    /\ chain = <<>>
    /\ cur' = Converted(to_lowercase_fast(src), FALSE)
    /\ chain' = <<"to_lowercase_fast">>
    /\ UNCHANGED <<src, sysVars>>

ConvertHexCase ==
    /\ chain = <<>>
    /\ \E to_upper \in BOOLEAN :
           cur' = Converted(convert_hex_case(src, to_upper), to_upper)
    /\ chain' = <<"convert_hex_case">>
    /\ UNCHANGED <<src, sysVars>>

CaseNext == ToUppercaseFast \/ ToLowercaseFast \/ ConvertHexCase

SpecCase == CaseInit /\ [][CaseNext]_vars

(***************************************************************************)
(* types::types (src/src/types/types.rs): is_list_like,                    *)
(* simplify_nonlist_type and simplify_type.                                *)
(***************************************************************************)
MaxTypePieces == 5

\* the pieces of the type strings: "a::b::C", "x", "<", ">", ">>", ",",
\* " ", "[", "]"
TypePieces ==
    {<<97, 58, 58, 98, 58, 58, 67>>, <<120>>, <<60>>, <<62>>, <<62, 62>>,
     <<44>>, <<32>>, <<91>>, <<93>>}

RECURSIVE TypeConcats(_)
TypeConcats(n) ==
    IF n = 0 THEN {<<>>}
    ELSE TypeConcats(n - 1)
         \cup {s \o p : s \in TypeConcats(n - 1), p \in TypePieces}

TypeInputs == TypeConcats(MaxTypePieces)

\* [a-zA-Z_] and [a-zA-Z0-9_]
ident_start(c) == c \in (65..90) \cup (97..122) \cup {95}
ident_char(c) == ident_start(c) \/ c \in 48..57

\* the index after the identifier characters that start at i
RECURSIVE ident_end(_, _)
ident_end(s, i) ==
    IF i <= Len(s) /\ ident_char(s[i]) THEN ident_end(s, i + 1) ELSE i

\* the index after the longest match of ([a-zA-Z_][a-zA-Z0-9_]*::)+ that
\* starts at i, or i when there is none
RECURSIVE qualifier_end(_, _)
qualifier_end(s, i) ==
    IF i > Len(s) \/ ~ident_start(s[i]) THEN i
    ELSE LET e == ident_end(s, i)
         IN IF e + 1 <= Len(s) /\ s[e] = 58 /\ s[e + 1] = 58
            THEN qualifier_end(s, e + 2)
            ELSE i

\* QUALIFIER_RE.replace_all(s, "") from index i on
RECURSIVE strip_from(_, _)
strip_from(s, i) ==
    IF i > Len(s) THEN <<>>
    ELSE IF qualifier_end(s, i) > i THEN strip_from(s, qualifier_end(s, i))
    ELSE <<s[i]>> \o strip_from(s, i + 1)

\* QUALIFIER_RE.replace_all(s, "")
strip_qualifiers(s) == strip_from(s, 1)

\* str::starts_with / ends_with
starts_with(s, p) == Len(s) >= Len(p) /\ SubSeq(s, 1, Len(p)) = p
ends_with(s, p) ==
    Len(s) >= Len(p) /\ SubSeq(s, Len(s) - Len(p) + 1, Len(s)) = p

\* is_list_like(type_str)
is_list_like(type_str) ==
    \/ \E i \in 1..Len(type_str) : type_str[i] \in {60, 62}
    \/ LET trimmed == trim(type_str)
       IN \/ starts_with(trimmed, <<86, 101, 99, 60>>)
          \/ starts_with(trimmed, <<91>>) /\ ends_with(trimmed, <<93>>)

\* type_str.split("::").last(): what follows the last "::" found from the
\* left
RECURSIVE last_segment(_, _)
last_segment(s, piece) ==
    IF s = <<>> THEN piece
    ELSE IF Len(s) >= 2 /\ s[1] = 58 /\ s[2] = 58
    THEN last_segment(SubSeq(s, 3, Len(s)), <<>>)
    ELSE last_segment(Tail(s), Append(piece, Head(s)))

\* simplify_nonlist_type(type_str)
simplify_nonlist_type(type_str) ==
    IF is_list_like(type_str) THEN Err("ValidationError")
    ELSE Ok(last_segment(type_str, <<>>))

\* result after a token is finished: ", " between tokens, then the token
\* without its qualifiers
push_token(result, token) ==
    (IF result # <<>> THEN result \o <<44, 32>> ELSE result)
    \o strip_qualifiers(token)

\* the loop of simplify_type over the characters, and what follows it; the
\* depth is an i32 and saturating_sub(1) takes it below zero
RECURSIVE simplify_scan(_, _, _, _)
simplify_scan(s, current_token, result, inside_angle_brackets) ==
    IF s = <<>>
    THEN trim(IF current_token # <<>> THEN push_token(result, current_token)
              ELSE result)
    ELSE IF Head(s) = 60
    THEN simplify_scan(Tail(s), Append(current_token, 60), result,
                       inside_angle_brackets + 1)
    ELSE IF Head(s) = 62
    THEN simplify_scan(Tail(s), Append(current_token, 62), result,
                       IF inside_angle_brackets = -2147483647 - 1
                       THEN inside_angle_brackets
                       ELSE inside_angle_brackets - 1)
    ELSE IF Head(s) = 44 /\ inside_angle_brackets = 0
    THEN simplify_scan(Tail(s), <<>>, push_token(result, current_token), 0)
    ELSE simplify_scan(Tail(s), Append(current_token, Head(s)), result,
                       inside_angle_brackets)

\* simplify_type(type_str)
simplify_type(type_str) ==
    IF ~is_list_like(type_str) THEN simplify_nonlist_type(type_str)
    ELSE Ok(simplify_scan(type_str, <<>>, <<>>, 0))

TypeInit ==
    /\ src \in TypeInputs
    /\ chain = <<>>
    /\ cur = Ok(src)
    /\ SysUntouched

SimplifyNonlistType ==
    /\ chain = <<>>
    /\ cur' = simplify_nonlist_type(src)
    /\ chain' = <<"simplify_nonlist_type">>
    /\ UNCHANGED <<src, sysVars>>

SimplifyType ==
    /\ chain = <<>>
    /\ cur' = simplify_type(src)
    /\ chain' = <<"simplify_type">>
    /\ UNCHANGED <<src, sysVars>>

TypeNext == SimplifyNonlistType \/ SimplifyType

SpecType == TypeInit /\ [][TypeNext]_vars

(***************************************************************************)
(* utils::ascii (src/src/utils/ascii.rs): _image_to_ascii_core.  Widths,   *)
(* heights and the compensation factor are powers of two or zero, so the   *)
(* f32 arithmetic of the height computation is exact.  The pixels of the   *)
(* resized image are whatever the resize filter produced: every pixel has  *)
(* one of the adjusted brightness levels below.                            *)
(***************************************************************************)

\* the largest width and height, of the config and of the image
MaxAsciiDim == 2

\* config.aspect_ratio_compensation, as a fraction: 0, 1/2, 1, 2
Compensations ==
    {[n |-> 0, d |-> 1], [n |-> 1, d |-> 2], [n |-> 1, d |-> 1],
     [n |-> 2, d |-> 1]}

\* config.char_set: empty, ".", ".#", ".:#"
CharSets == {<<>>, <<46>>, <<46, 35>>, <<46, 58, 35>>}

\* brightness.powf(config.brightness_exponent): 0, 1/2, 1, and NaN or an
\* infinity (a negative or NaN exponent)
AdjustedLevels ==
    {[finite |-> TRUE, n |-> 0, d |-> 1], [finite |-> TRUE, n |-> 1, d |-> 2],
     [finite |-> TRUE, n |-> 1, d |-> 1], [finite |-> FALSE, n |-> 0, d |-> 1]}

\* the config and the image of a call
AsciiInputs ==
    [width : 0..MaxAsciiDim, height : 0..MaxAsciiDim,
     aspect_ratio_compensation : Compensations, char_set : CharSets,
     img_width : 1..MaxAsciiDim, img_height : 0..MaxAsciiDim]

\* f32::round of a non-negative fraction n/d, as u32
round_fraction(n, d) == (2 * n + d) \div (2 * d)

min2(a, b) == IF a < b THEN a ELSE b
max2(a, b) == IF a > b THEN a ELSE b

\* scaled_height: round(width / aspect_ratio / compensation), at most
\* config.height, at least 1
scaled_height(c) ==
    max2(1, min2(round_fraction(
                     c.width * c.img_height * c.aspect_ratio_compensation.d,
                     c.img_width * c.aspect_ratio_compensation.n),
                 c.height))

\* char_index: floor((1 - adjusted_brightness) * num_chars) as usize (NaN
\* and negative values give 0), lowered to num_chars - 1
char_index(level, num_chars) ==
    LET i == IF ~level.finite THEN 0
             ELSE ((level.d - level.n) * num_chars) \div level.d
    IN IF i >= num_chars THEN num_chars - 1 ELSE i

\* the rows y.. of the output for the resized pixels pix[y][x]
RECURSIVE render_rows(_, _, _)
render_rows(pix, char_set, y) ==
    IF y > Len(pix) THEN <<>>
    ELSE [x \in 1..Len(pix[y]) |->
             char_set[char_index(pix[y][x], Len(char_set)) + 1]]
         \o <<10>> \o render_rows(pix, char_set, y + 1)

\* _image_to_ascii_core(img, config): the results the call can have
image_to_ascii_core(c) ==
    IF c.char_set = <<>> THEN {Err("ValidationError")}
    ELSE IF c.aspect_ratio_compensation.n <= 0 THEN {Err("ValidationError")}
    ELSE IF c.width = 0 THEN {Err("ValidationError")}
    ELSE IF c.img_height = 0 THEN {Err("ValidationError")}
    ELSE {Ok(render_rows(pix, c.char_set, 1)) :
              pix \in [1..scaled_height(c) -> [1..c.width -> AdjustedLevels]]}

AsciiInit ==
    /\ src \in AsciiInputs
    /\ chain = <<>>
    /\ cur = Ok(<<>>)
    /\ SysUntouched

ImageToAscii ==
    /\ chain = <<>>
    /\ cur' \in image_to_ascii_core(src)
    /\ chain' = <<"image_to_ascii">>
    /\ UNCHANGED <<src, sysVars>>

AsciiNext == ImageToAscii

SpecAscii == AsciiInit /\ [][AsciiNext]_vars

(***************************************************************************)
\* the string holds a char that is neither whitespace nor a hex digit
HasHexNoise(s) ==
    \E k \in DOMAIN s : ~is_ascii_hexdigit(s[k]) /\ ~is_whitespace(s[k])

\* the string holds a char that is neither whitespace nor '0' or '1'
HasBinNoise(s) ==
    \E k \in DOMAIN s : ~is_bin_digit(s[k]) /\ ~is_whitespace(s[k])

\* the value of an upper-case digit char, -1 when it is none
UpperDigitValue(c) ==
    IF c \in 48..57 THEN c - 48 ELSE IF c \in 65..70 THEN c - 55 ELSE -1

\* the number a digit group denotes, most significant digit first;
\* -1 when a char is no upper-case digit of the radix
RECURSIVE GroupValue(_, _)
GroupValue(g, radix) ==
    IF g = <<>> THEN 0
    ELSE LET v == UpperDigitValue(g[Len(g)])
             rest == GroupValue(SubSeq(g, 1, Len(g) - 1), radix)
         IN  IF v < 0 \/ v >= radix \/ rest < 0 THEN -1
             ELSE rest * radix + v

\* the bytes an aligned digit string denotes: group k of d digits is byte k
DenotedBytes(digits, d, radix) ==
    [k \in 1..(Len(digits) \div d) |->
        LET g == SubSeq(digits, (k - 1) * d + 1, k * d)
        IN  GroupValue([j \in 1..d |->
                           IF g[j] \in 97..102 THEN g[j] - 32 ELSE g[j]],
                       radix)]

\* out is the layout of the bytes: per byte d upper-case digits, most
\* significant first, one space between two groups and nothing else
LayoutOf(out, bytes, d, radix) ==
    LET n == Len(bytes)
    IN  /\ Len(out) = (IF n = 0 THEN 0 ELSE n * d + (n - 1))
        /\ \A k \in 1..n :
             /\ GroupValue(SubSeq(out, (k - 1) * (d + 1) + 1,
                                  (k - 1) * (d + 1) + d), radix) = bytes[k]
             /\ k < n => out[k * (d + 1)] = 32

(***************************************************************************)
(* C1.  Hex round trip: decoding what encode returned for a text gives     *)
(* back Ok(text).                                                          *)
(***************************************************************************)
C1_HexRoundTrip ==
    chain = << "hex_encode", "hex_decode" >> => cur = Ok(src)

\* a text of several chars with a multi-byte char in it went round
C1_Witness ==
    /\ chain = << "hex_encode", "hex_decode" >>
    /\ Len(src) >= 2
    /\ Len(as_bytes(src)) > Len(src)

(***************************************************************************)
(* C2.  Binary round trip: bin_to_str of what str_to_bin returned for a    *)
(* text gives back Ok(text), and "01001000" decodes to "H".                *)
(***************************************************************************)
C2_BinRoundTrip ==
    /\ chain = << "str_to_bin", "bin_to_str" >> => cur = Ok(src)
    /\ (chain = << "bin_to_str" >> /\ src = << 48, 49, 48, 48, 49, 48, 48, 48 >>)
          => cur = Ok(<< 72 >>)

(***************************************************************************)
(* C3.  Decode cleans before validating: decoding a string has the same    *)
(* outcome as decoding its cleaned form, for both radices.                 *)
(***************************************************************************)
C3_DecodeCleansFirst ==
    /\ chain = << "hex_decode" >> => cur = hex_decode(hex_clean(src))
    /\ chain = << "bin_to_str" >> => cur = bin_to_str(clean_bin(src))

(***************************************************************************)
(* C4.  Decode rejects the empty case: when the cleaned digit string is    *)
(* empty, decode returns an error, for both radices.                       *)
(***************************************************************************)
C4_DecodeRejectsEmpty ==
    /\ (chain = << "hex_decode" >> /\ hex_clean(src) = <<>>) => cur.kind # "Ok"
    /\ (chain = << "bin_to_str" >> /\ clean_bin(src) = <<>>) => cur.kind # "Ok"

(***************************************************************************)
(* C5.  Length invariant: decode succeeds if and only if the cleaned       *)
(* digit string is not empty and its length is a multiple of D.            *)
(***************************************************************************)
C5_LengthInvariant ==
    /\ chain = << "hex_decode" >> =>
          (cur.kind = "Ok" <=>
              (Len(hex_clean(src)) > 0 /\ Len(hex_clean(src)) % 2 = 0))
    /\ chain = << "bin_to_str" >> =>
          (cur.kind = "Ok" <=>
              (Len(clean_bin(src)) > 0 /\ Len(clean_bin(src)) % 8 = 0))

(***************************************************************************)
(* C6.  An aligned digit string (digits and whitespace only) whose bytes   *)
(* are not valid UTF-8 decodes to Err(InvalidSyntax), for both radices.    *)
(***************************************************************************)
C6_InvalidUtf8IsInvalidSyntax ==
    /\ ( /\ chain = << "hex_decode" >>
         /\ ~HasHexNoise(src)
         /\ Len(hex_clean(src)) % 2 = 0
         /\ from_utf8(DenotedBytes(hex_clean(src), 2, 16)).kind # "Ok" )
          => cur.kind = "InvalidSyntax"
    /\ ( /\ chain = << "bin_to_str" >>
         /\ ~HasBinNoise(src)
         /\ Len(clean_bin(src)) % 8 = 0
         /\ from_utf8(DenotedBytes(clean_bin(src), 8, 2)).kind # "Ok" )
          => cur.kind = "InvalidSyntax"

(***************************************************************************)
(* C7.  When the number of digits left after cleaning is not a multiple    *)
(* of D, decode returns Err(InvalidSyntax), for both radices.              *)
(***************************************************************************)
C7_MisalignedIsInvalidSyntax ==
    /\ (chain = << "hex_decode" >> /\ Len(hex_clean(src)) % 2 # 0)
          => cur.kind = "InvalidSyntax"
    /\ (chain = << "bin_to_str" >> /\ Len(clean_bin(src)) % 8 # 0)
          => cur.kind = "InvalidSyntax"

\* an odd number of hex digits with nothing but whitespace around them
C7_Witness ==
    /\ chain = << "hex_decode" >>
    /\ ~HasHexNoise(src)
    /\ Len(hex_clean(src)) % 2 # 0

(***************************************************************************)
(* C8.  Decoding an input with a group that holds a char that is no radix  *)
(* digit fails with the ParseIntError kind, for both radices.              *)
(***************************************************************************)
C8_BadGroupIsParseIntError ==
    /\ (chain = << "hex_decode" >> /\ HasHexNoise(src))
          => cur.kind = "ParseIntError"
    /\ (chain = << "bin_to_str" >> /\ HasBinNoise(src))
          => cur.kind = "ParseIntError"

(***************************************************************************)
(* C9.  Encode layout: for a text of n UTF-8 bytes encode returns, per     *)
(* byte and in byte order, D zero-padded upper-case digits, most           *)
(* significant first, with one space between two groups: n*D + (n-1)       *)
(* chars for n > 0 and none for the empty text.  It never fails.           *)
(***************************************************************************)
C9_EncodeLayout ==
    /\ chain = << "hex_encode" >> =>
          (cur.kind = "Ok" /\ LayoutOf(cur.val, as_bytes(src), 2, 16))
    /\ chain = << "str_to_bin" >> =>
          (cur.kind = "Ok" /\ LayoutOf(cur.val, as_bytes(src), 8, 2))

\* a text of three bytes or more, one of them above 0x9F, was encoded
C9_Witness ==
    /\ chain = << "str_to_bin" >>
    /\ Len(as_bytes(src)) >= 3
    /\ \E k \in DOMAIN src : src[k] = 233

(***************************************************************************)
(* C10.  No operation panics: every codec operation, on every input,       *)
(* returns a value or a typed error.                                       *)
(***************************************************************************)
C10_NoPanic ==
    /\ cur.kind # "Panic"
    /\ cur.kind \in { "Ok", "Bool", "InvalidSyntax" }

\* fmt_bin ran its unwrap() loop on an input with stray characters in it
C10_Witness ==
    /\ chain = << "fmt_bin" >>
    /\ HasBinNoise(src)
    /\ cur.kind = "Ok"

(***************************************************************************)
(* Helpers of the properties of format and check_strict.                   *)
(***************************************************************************)
\* out is the digits in groups of d, one space between two groups
GroupedForm(out, digits, d) ==
    LET n == Len(digits) \div d
    IN  /\ Len(out) = n * d + (n - 1)
        /\ \A k \in 1..n :
             /\ SubSeq(out, (k - 1) * (d + 1) + 1, (k - 1) * (d + 1) + d)
                   = SubSeq(digits, (k - 1) * d + 1, k * d)
             /\ k < n => out[k * (d + 1)] = 32

\* the chars of s that are White_Space, taken out
RECURSIVE WithoutWhitespace(_)
WithoutWhitespace(s) ==
    IF s = <<>> THEN <<>>
    ELSE (IF is_whitespace(Head(s)) THEN <<>> ELSE << Head(s) >>)
         \o WithoutWhitespace(Tail(s))

HasWhitespace(s) == \E k \in DOMAIN s : is_whitespace(s[k])

(***************************************************************************)
(* C11.  format returns Err(InvalidSyntax) exactly when the cleaned        *)
(* string is empty or its length is no multiple of D; otherwise it         *)
(* returns the cleaned digits, in order, in groups of D with one space     *)
(* between two groups.                                                     *)
(***************************************************************************)
C11_FormatResult ==
    /\ chain = << "hex_format" >> =>
          LET c == hex_clean(src)
          IN  IF c = <<>> \/ Len(c) % 2 # 0
              THEN cur.kind = "InvalidSyntax"
              ELSE cur.kind = "Ok" /\ GroupedForm(cur.val, c, 2)
    /\ chain = << "fmt_bin" >> =>
          LET c == clean_bin(src)
          IN  IF c = <<>> \/ Len(c) % 8 # 0
              THEN cur.kind = "InvalidSyntax"
              ELSE cur.kind = "Ok" /\ GroupedForm(cur.val, c, 8)

\* format regrouped two groups or more out of an input with noise in it
C11_Witness ==
    /\ chain = << "hex_format" >>
    /\ HasHexNoise(src)
    /\ cur.kind = "Ok"
    /\ Len(hex_clean(src)) >= 4

(***************************************************************************)
(* C12.  Whenever format succeeds, check_strict of the same radix is true  *)
(* of what it returned.                                                    *)
(***************************************************************************)
C12_FormatIsStrict ==
    /\ chain = << "hex_format", "hex_check_strict" >> => cur = Bool(TRUE)
    /\ chain = << "fmt_bin", "is_valid_bin_strict" >> => cur = Bool(TRUE)

\* check_strict looked at a formatted string of two groups or more
C12_Witness ==
    /\ chain = << "hex_format", "hex_check_strict" >>
    /\ Len(hex_clean(src)) >= 4

(***************************************************************************)
(* C13.  check_strict is true exactly when the input without its           *)
(* whitespace is not empty, has a length that is a multiple of D and       *)
(* holds radix digits only.                                                *)
(***************************************************************************)
C13_StrictValidation ==
    /\ chain = << "hex_check_strict" >> =>
          LET r == WithoutWhitespace(src)
          IN  /\ cur.kind = "Bool"
              /\ cur.flag <=> ( /\ r # <<>>
                                /\ Len(r) % 2 = 0
                                /\ \A k \in DOMAIN r : is_ascii_hexdigit(r[k]) )
    /\ chain = << "is_valid_bin_strict" >> =>
          LET r == WithoutWhitespace(src)
          IN  /\ cur.kind = "Bool"
              /\ cur.flag <=> ( /\ r # <<>>
                                /\ Len(r) % 8 = 0
                                /\ \A k \in DOMAIN r : is_bin_digit(r[k]) )

\* an input with whitespace between its digits was accepted
C13_Witness ==
    /\ chain = << "hex_check_strict" >>
    /\ cur.flag
    /\ \E k \in 2..(Len(src) - 1) : is_whitespace(src[k])

(***************************************************************************)
(* C14.  Strict binary validation rejects separators: is_valid_bin_strict  *)
(* is false for every input that holds whitespace, for the empty input and *)
(* for a digit count that is no multiple of 8.                             *)
(***************************************************************************)
C14_StrictRejectsSeparators ==
    chain = << "is_valid_bin_strict" >> =>
        ( ( \/ HasWhitespace(src)
            \/ src = <<>>
            \/ Len(clean_bin(src)) % 8 # 0 ) => ~cur.flag )

(***************************************************************************)
(* C15.  Lenient validation: check is true exactly when the input is not   *)
(* empty and every char is White_Space (ASCII or not) or a radix digit;    *)
(* the number of digits does not matter.                                   *)
(***************************************************************************)
C15_LenientValidation ==
    /\ chain = << "hex_check" >> =>
          /\ cur.kind = "Bool"
          /\ cur.flag <=> ( /\ src # <<>>
                            /\ \A k \in DOMAIN src :
                                  is_whitespace(src[k]) \/ is_ascii_hexdigit(src[k]) )
    /\ chain = << "is_valid_bin" >> =>
          /\ cur.kind = "Bool"
          /\ cur.flag <=> ( /\ src # <<>>
                            /\ \A k \in DOMAIN src :
                                  is_whitespace(src[k]) \/ is_bin_digit(src[k]) )

\* an odd number of hex digits with a no-break space was accepted
C15_Witness ==
    /\ chain = << "hex_check" >>
    /\ cur.flag
    /\ \E k \in DOMAIN src : src[k] = 160
    /\ Len(hex_clean(src)) % 2 = 1

(***************************************************************************)
(* C16.  Strict validity implies lenient validity: when check_strict is    *)
(* true of an input, check of the same radix is true of it.                *)
(***************************************************************************)
C16_StrictImpliesLenient ==
    /\ (chain = << "hex_check_strict" >> /\ cur.flag) => hex_check(src)
    /\ (chain = << "is_valid_bin_strict" >> /\ cur.flag) => is_valid_bin(src)

\* a strictly valid binary input with a no-break space in it
C16_Witness ==
    /\ chain = << "is_valid_bin_strict" >>
    /\ cur.flag
    /\ \E k \in DOMAIN src : src[k] = 160

(***************************************************************************)
(* C17.  clean returns the input with every char that is no radix digit    *)
(* removed and the rest in order (so "" when there is no digit), never     *)
(* fails, and cleaning twice gives what cleaning once gives.               *)
(***************************************************************************)
RECURSIVE HexDigitsOf(_)
HexDigitsOf(s) ==
    IF s = <<>> THEN <<>>
    ELSE (IF Head(s) \in (48..57) \cup (65..70) \cup (97..102)
          THEN << Head(s) >> ELSE <<>>) \o HexDigitsOf(Tail(s))

RECURSIVE BinDigitsOf(_)
BinDigitsOf(s) ==
    IF s = <<>> THEN <<>>
    ELSE (IF Head(s) \in {48, 49} THEN << Head(s) >> ELSE <<>>)
         \o BinDigitsOf(Tail(s))

C17_CleanFilters ==
    /\ chain = << "hex_clean" >> => cur = Ok(HexDigitsOf(src))
    /\ chain = << "clean_bin" >> => cur = Ok(BinDigitsOf(src))
    /\ chain = << "hex_clean", "hex_clean" >> => cur = Ok(hex_clean(src))
    /\ chain = << "clean_bin", "clean_bin" >> => cur = Ok(clean_bin(src))

\* an input with digits and other chars was cleaned twice
C17_Witness ==
    /\ chain = << "clean_bin", "clean_bin" >>
    /\ HasBinNoise(src)
    /\ cur.val # <<>>

(***************************************************************************)
(* C18.  Hex case policy: decode returns the same for an input and for     *)
(* the input with any of its letters a-f / A-F changed in case, and what   *)
(* encode returns holds no lower-case letter a-f.                          *)
(***************************************************************************)
HexLetterPositions(s) ==
    { k \in DOMAIN s : s[k] \in (65..70) \cup (97..102) }

\* s with the case of the letters at the positions in S changed
FlipCase(s, S) ==
    [k \in DOMAIN s |->
        IF k \in S THEN (IF s[k] >= 97 THEN s[k] - 32 ELSE s[k] + 32)
        ELSE s[k]]

C18_HexCasePolicy ==
    /\ chain = << "hex_decode" >> =>
          \A S \in SUBSET HexLetterPositions(src) :
              hex_decode(FlipCase(src, S)) = cur
    /\ chain = << "hex_encode" >> =>
          \A k \in DOMAIN cur.val : cur.val[k] \notin 97..102

\* a string with a lower-case and an upper-case hex letter was decoded
C18_Witness ==
    /\ chain = << "hex_decode" >>
    /\ cur.kind = "Ok"
    /\ \E k \in DOMAIN src : src[k] \in 97..102
    /\ \E k \in DOMAIN src : src[k] \in 65..70

(***************************************************************************)
(* C19: read-your-writes of the environment cache.  After any sequence of  *)
(* set_env calls, get_env(k) returns Ok(v) for the v of the latest         *)
(* set_env(k, v), and the map get_envs() returns holds k mapped to that v. *)
(***************************************************************************)
C19_ReadYourWrites ==
    /\ (env_ret.op = "get_env" /\ env_ret.key \in DOMAIN last_set)
           => env_ret.res = Ok(last_set[env_ret.key].val)
    /\ env_ret.op = "get_envs"
           => \A k \in DOMAIN last_set :
                  /\ k \in DOMAIN env_ret.map
                  /\ env_ret.map[k] = last_set[k].val

\* get_envs is called after the cache was initialised from an environment
\* that held L, and after two set_env calls gave L two other values
C19_Witness ==
    /\ env_ret.op = "get_envs"
    /\ <<76>> \in DOMAIN last_set
    /\ last_set[<<76>>].over
    /\ last_set[<<76>>].val = <<>>
    /\ <<75>> \in DOMAIN env_ret.map

(***************************************************************************)
(* C20: the errors of SleepTime::from_str.  A string whose number is       *)
(* negative ("-1s": a minus sign before a time that is itself accepted     *)
(* and is not zero) gives NegativeTime; a string with no parsable number   *)
(* or an unknown unit ("invalid", "2x") gives InvalidFormat.               *)
(***************************************************************************)
NegativeNumber(str) ==
    LET s == to_lowercase(trim(str))
    IN /\ s # <<>>
       /\ s[1] = 45
       /\ sleep_from_str(Tail(s)).kind = "Ok"
       /\ sleep_from_str(Tail(s)).num.mant > 0

NoNumberOrUnknownUnit(str) ==
    LET s == to_lowercase(trim(str))
        at == find_unit(s)
    IN \/ ~parse_f64(SubSeq(s, 1, at)).ok
       \/ ~unit_multiplier(SubSeq(s, at + 1, Len(s))).ok

C20_FromStrErrors ==
    chain = <<"from_str">> =>
        /\ NegativeNumber(src) => cur.kind = "NegativeTime"
        /\ (~NegativeNumber(src) /\ NoNumberOrUnknownUnit(src))
               => cur.kind = "InvalidFormat"

(***************************************************************************)
(* C21: safe_sleep is the fallible entry point.  For every argument that   *)
(* is not a time to sleep for (a string that does not parse as a time, a   *)
(* negative time) safe_sleep returns Err(SleepError) without sleeping,     *)
(* and no argument makes it panic.                                         *)
(***************************************************************************)
NotATime(arg) ==
    IF arg.str THEN sleep_from_str(arg.s).kind # "Ok"
    ELSE ~seconds_ge_zero(arg.time)

C21_SafeSleepFallible ==
    chain = <<"safe_sleep">> =>
        /\ cur.kind # "Panic"
        /\ NotATime(cur.arg)
               => cur.kind \in {"InvalidFormat", "NegativeTime", "OutOfRange"}
                  /\ ~cur.slept

(***************************************************************************)
(* C22: is_valid_ipv4(s) is true exactly when s is IP:PORT with one ':',   *)
(* IP being four non-empty dot-separated decimal numbers in 0..=255 and    *)
(* PORT a decimal number in 0..=65535; str_to_ipv4(s) is Some exactly for  *)
(* those s and carries those octets and that port.                         *)
(***************************************************************************)
\* a non-empty string of decimal digits denoting a number up to max
DecimalUpTo(t, max) ==
    /\ t # <<>>
    /\ \A i \in 1..Len(t) : t[i] \in 48..57
    /\ parse_digits(t, 0, max).ok

IpPortForm(s) ==
    /\ Cardinality({i \in 1..Len(s) : s[i] = 58}) = 1
    /\ LET colon == CHOOSE i \in 1..Len(s) : s[i] = 58
           ip == split(SubSeq(s, 1, colon - 1), 46)
       IN /\ Len(ip) = 4
          /\ \A i \in 1..4 : DecimalUpTo(ip[i], 255)
          /\ DecimalUpTo(SubSeq(s, colon + 1, Len(s)), 65535)

C22_Ipv4Form ==
    /\ chain = <<"is_valid_ipv4">> => cur.flag = IpPortForm(src)
    /\ chain = <<"str_to_ipv4">> =>
           IF IpPortForm(src)
           THEN LET colon == CHOOSE i \in 1..Len(src) : src[i] = 58
                    ip == split(SubSeq(src, 1, colon - 1), 46)
                IN /\ cur.kind = "Some"
                   /\ cur.val = [i \in 1..4 |-> parse_digits(ip[i], 0, 255).n]
                   /\ cur.port =
                          parse_digits(SubSeq(src, colon + 1, Len(src)),
                                       0, 65535).n
           ELSE cur.kind = "None"

(***************************************************************************)
(* C23: random(min, max) returns Ok(v) with lo <= v <= hi, lo and hi being *)
(* the smaller and the larger argument, for every comparable pair,         *)
(* including min > max and min = max; when the arguments cannot be         *)
(* compared it returns InvalidSyntax.                                      *)
(***************************************************************************)
Comparable(a, b) == ~a.nan /\ ~b.nan

Lo(a, b) == IF value_lt(b, a) THEN b ELSE a
Hi(a, b) == IF value_lt(b, a) THEN a ELSE b

InRange(v, a, b) == ~value_lt(v, Lo(a, b)) /\ ~value_lt(Hi(a, b), v)

C23_RandomInRange ==
    chain = <<"random">> =>
        IF Comparable(src[1], src[2])
        THEN cur.kind = "Ok" /\ InRange(cur.val, src[1], src[2])
        ELSE cur.kind = "InvalidSyntax"

(***************************************************************************)
(* C23, amended: the same for every comparable pair whose span is finite   *)
(* in the type: two equal finite values, or two finite values of which     *)
(* none is f64::MAX or f64::MIN.  A comparable pair with an infinite bound, *)
(* or with f64::MAX or f64::MIN and a different bound, has no uniform       *)
(* distribution and random returns RandomError; NaN gives InvalidSyntax.   *)
(***************************************************************************)
Infinite(a) == a.inf # 0
Extreme(a) == a.max # 0

FiniteSpan(a, b) ==
    /\ ~Infinite(a)
    /\ ~Infinite(b)
    /\ a = b \/ (~Extreme(a) /\ ~Extreme(b))

C23_RandomInFiniteRange ==
    chain = <<"random">> =>
        IF ~Comparable(src[1], src[2]) THEN cur.kind = "InvalidSyntax"
        ELSE IF ~FiniteSpan(src[1], src[2]) THEN cur.kind = "RandomError"
        ELSE cur.kind = "Ok" /\ InRange(cur.val, src[1], src[2])

\* an inverted pair gave a value strictly inside the range
C23_Witness ==
    /\ chain = <<"random">>
    /\ value_lt(src[2], src[1])
    /\ cur.kind = "Ok"
    /\ value_lt(src[2], cur.val)
    /\ value_lt(cur.val, src[1])

(***************************************************************************)
(* C24: normalize_path(p) removes every '.' component and resolves every   *)
(* '..' against the component before it: the result has no '.' or '..'     *)
(* component, it is the stack of names left after each '..' took away the  *)
(* name before it, an absolute path stays absolute, and normalising the    *)
(* result again changes nothing.                                           *)
(***************************************************************************)
\* the names left when each ".." removes the name before it
RECURSIVE ResolvedNames(_, _)
ResolvedNames(pieces, stack) ==
    IF pieces = <<>> THEN stack
    ELSE IF Head(pieces) \in {<<>>, <<46>>}
    THEN ResolvedNames(Tail(pieces), stack)
    ELSE IF Head(pieces) = <<46, 46>>
    THEN ResolvedNames(Tail(pieces),
                       IF stack = <<>> THEN stack
                       ELSE SubSeq(stack, 1, Len(stack) - 1))
    ELSE ResolvedNames(Tail(pieces), Append(stack, Head(pieces)))

IsAbsolute(p) == p # <<>> /\ p[1] = 47

NamesOf(p) == SelectSeq(split(p, 47), LAMBDA x : x # <<>>)

C24_NormalizePath ==
    /\ Len(chain) >= 1 /\ chain[1] = "normalize_path" =>
           LET n == normalize_path(src)
           IN /\ \A i \in 1..Len(NamesOf(n)) :
                     NamesOf(n)[i] \notin {<<46>>, <<46, 46>>}
              /\ NamesOf(n) = ResolvedNames(split(src, 47), <<>>)
              /\ IsAbsolute(src) => IsAbsolute(n)
              /\ Len(chain) = 1 => cur.val = n
    /\ chain = <<"normalize_path", "normalize_path">> =>
           cur.val = normalize_path(src)

\* "/a/../b/." was normalised twice: a '..' took a name away, a '.' was
\* dropped and the path is absolute
C24_Witness ==
    /\ chain = <<"normalize_path", "normalize_path">>
    /\ Len(src) = MaxPathLen
    /\ IsAbsolute(src)
    /\ \E i \in 1..Len(split(src, 47)) : split(src, 47)[i] = <<46, 46>>
    /\ cur.val = <<47, 98>>

(***************************************************************************)
(* C25: content of a BFile.  After any sequence of write and append calls  *)
(* on one BFile, read() returns the data of the last write followed by     *)
(* the data of every later append in call order; after delete(), exists()  *)
(* is false; delete() on a missing file returns Ok and changes nothing.    *)
(***************************************************************************)
C25_BFileContent ==
    /\ (fs_ret.op = "read" /\ fs_hist.written)
           => fs_ret.res = Ok(fs_hist.data)
    /\ (fs_ret.op = "exists" /\ fs_hist.deleted) => ~fs_ret.flag
    /\ (fs_ret.op = "delete" /\ fs_ret.path \notin DOMAIN fs_ret.fs)
           => fs_ret.res.kind = "Ok" /\ fs = fs_ret.fs

\* after a write of "x" and two appends of "y", with the directory "/n"
\* made on the way, the file was read
C25_Witness ==
    /\ fs_ret.op = "read"
    /\ fs_hist.written
    /\ fs_hist.data = <<120, 121, 121>>
    /\ <<47, 110>> \in DOMAIN fs

(***************************************************************************)
(* C29: effect and frame of BFile::rename.  When rename succeeds, path()   *)
(* is the normalised destination (a relative destination resolved against  *)
(* the parent directory of the file) and the old path no longer exists;    *)
(* when rename returns an error, path() is unchanged.                      *)
(***************************************************************************)
\* the destination the claim describes, for the path the file had
Destination(old, new_path) ==
    normalize_path(IF is_relative(new_path)
                   THEN path_parent(old) \o <<47>> \o new_path
                   ELSE new_path)

C29_RenameEffect ==
    fs_ret.op = "rename" =>
        IF fs_ret.res.kind = "Ok"
        THEN /\ bfile = Destination(fs_ret.path, fs_ret.arg)
             /\ fs_ret.path \notin DOMAIN fs
        ELSE bfile = fs_ret.path

(***************************************************************************)
(* C29, amended: as above, except that a rename onto the file's own path   *)
(* succeeds and leaves the file where it is; in every other successful     *)
(* rename the old path no longer exists, and the new one does.             *)
(***************************************************************************)
C29_RenameEffectUnlessSame ==
    fs_ret.op = "rename" =>
        IF fs_ret.res.kind = "Ok"
        THEN /\ bfile = Destination(fs_ret.path, fs_ret.arg)
             /\ bfile \in DOMAIN fs
             /\ bfile # fs_ret.path => fs_ret.path \notin DOMAIN fs
        ELSE bfile = fs_ret.path

\* "/d/f", holding written data, was renamed to "../h" and is now "/h"
C29_Witness ==
    /\ fs_ret.op = "rename"
    /\ fs_ret.res.kind = "Ok"
    /\ fs_ret.arg = <<46, 46, 47, 104>>
    /\ fs_ret.path = <<47, 100, 47, 102>>
    /\ bfile = <<47, 104>>
    /\ fs_hist.written
    /\ fs[bfile].data = fs_hist.data

(***************************************************************************)
(* C28: the cache mirrors the OS environment under concurrency.  When      *)
(* several threads call set_env on the same key with different values,     *)
(* then once all calls have returned, the value the cache holds for the    *)
(* key (get_envs) equals the value in the OS environment (get_env).        *)
(***************************************************************************)
AllReturned == \A t \in Threads : thr[t] = "returned"

C28_CacheMirrorsOs ==
    (thr # NoThreads /\ AllReturned) =>
        /\ SharedKey \in DOMAIN get_envs(os_env, ENV_VARS).map
        /\ Ok(get_envs(os_env, ENV_VARS).map[SharedKey])
               = get_env(os_env, ENV_VARS, SharedKey).res

(***************************************************************************)
(* C30: the table-based converter agrees with the simple ones.  For every  *)
(* string h of hex digits, convert_hex_case(h, true) = to_uppercase_fast(h) *)
(* and convert_hex_case(h, false) = to_lowercase_fast(h); decimal digits   *)
(* come back unchanged and only a-f / A-F change case.                     *)
(***************************************************************************)
AllHexDigits(s) == \A i \in 1..Len(s) : is_ascii_hexdigit(s[i])

C30_CaseConvertersAgree ==
    (chain = <<"convert_hex_case">> /\ AllHexDigits(src)) =>
        /\ cur.val = IF cur.flag THEN to_uppercase_fast(src)
                     ELSE to_lowercase_fast(src)
        /\ Len(cur.val) = Len(src)
        /\ \A i \in 1..Len(src) : src[i] \in 48..57 => cur.val[i] = src[i]

(***************************************************************************)
(* C26: simplify_type strips every namespace qualifier at every nesting    *)
(* depth of generic arguments and keeps the rest of the type text          *)
(* unchanged, returning Ok for every list-like or generic input; other     *)
(* inputs go to simplify_nonlist_type, which returns the last '::'         *)
(* segment; simplify_nonlist_type returns ValidationError for any input    *)
(* that holds '<' or '>' or is written as [..].                            *)
(***************************************************************************)
\* the text after the last "::" of s
AfterLastColons(s) ==
    LET at == {i \in 1..Len(s) - 1 : s[i] = 58 /\ s[i + 1] = 58}
    IN IF at = {} THEN s
       ELSE SubSeq(s, (CHOOSE i \in at : \A j \in at : j <= i) + 2, Len(s))

HasAngle(s) == \E i \in 1..Len(s) : s[i] \in {60, 62}

Bracketed(s) ==
    /\ trim(s) # <<>>
    /\ trim(s)[1] = 91
    /\ trim(s)[Len(trim(s))] = 93

C26_SimplifyType ==
    /\ chain = <<"simplify_type">> =>
           IF HasAngle(src) \/ Bracketed(src)
           THEN cur = Ok(trim(strip_qualifiers(src)))
           ELSE cur = Ok(AfterLastColons(src))
    /\ (chain = <<"simplify_nonlist_type">>
        /\ (HasAngle(src) \/ Bracketed(src)))
           => cur.kind = "ValidationError"

(***************************************************************************)
(* C27: shape of the ASCII rendering.  For every accepted config           *)
(* (non-empty char_set, width > 0, compensation > 0) the output has at     *)
(* most config.height lines, every line has at most config.width           *)
(* characters and every character other than the newline is a member of    *)
(* char_set; an empty char_set gives a ValidationError.                    *)
(***************************************************************************)
\* the lines of a text in which every line ends with a newline
LinesOf(text) ==
    LET parts == split(text, 10)
    IN SubSeq(parts, 1, Len(parts) - 1)

Accepted(c) ==
    /\ c.char_set # <<>>
    /\ c.width > 0
    /\ c.aspect_ratio_compensation.n > 0

C27_AsciiShape ==
    chain = <<"image_to_ascii">> =>
        /\ src.char_set = <<>> => cur.kind = "ValidationError"
        /\ (Accepted(src) /\ cur.kind = "Ok") =>
               /\ Len(LinesOf(cur.val)) <= src.height
               /\ \A i \in 1..Len(LinesOf(cur.val)) :
                      /\ Len(LinesOf(cur.val)[i]) <= src.width
                      /\ \A j \in 1..Len(LinesOf(cur.val)[i]) :
                             \E k \in 1..Len(src.char_set) :
                                 LinesOf(cur.val)[i][j] = src.char_set[k]

====
